---- MODULE Spec2Model ----
(***************************************************************************)
(* Type algebra of hail/python/hail/expr/types.py: Type Nodes, their       *)
(* equality, and the unification engine (unify / subst / clear) over named *)
(* variables whose binding cells live in the process-wide registry         *)
(* Box.named_boxes.                                                        *)
(*                                                                         *)
(* A Type Node is a record with a kind field k.  A Python call returns a   *)
(* record too: a Type Node, PyBool(b), PyNone, or Raise(exception).        *)
(***************************************************************************)
EXTENDS Integers, Sequences, FiniteSets, TLC

VARIABLES
    named_boxes,  \* Box.named_boxes: variable name -> box (an index of box_value)
    box_value,    \* per Box object: its `value` attribute, NoValue when absent
    objs,         \* the Type Nodes the caller holds, one per slot
    call,         \* the last call made: [op, slot, arg]
    ret,          \* what the last call returned or raised
    pre,          \* box_value as it was when the last call started
    context,      \* the `_context` attributes that are set: {[node, ctx]}
    threads       \* per thread in get_context(): [pc, path, local, ret]

vars == <<named_boxes, box_value, objs, call, ret, pre, context, threads>>

(***************************************************************************)
(* Bounds                                                                  *)
(***************************************************************************)
MaxObjs == 2
MaxRank == 2
MaxThreads == 2

(***************************************************************************)
(* Python values                                                           *)
(***************************************************************************)
NoValue == [k |-> "novalue"]
NoObj == [k |-> "noobj"]
PyNone == [k |-> "pynone"]
PyBool(b) == [k |-> "pybool", v |-> b]
Raise(e) == [k |-> "raise", exc |-> e]

IsRaise(r) == r.k = "raise"
IsTrue(r) == r.k = "pybool" /\ r.v

(***************************************************************************)
(* Type Node constructors                                                  *)
(***************************************************************************)
tvoid == [k |-> "void"]
tint32 == [k |-> "int32"]
tint64 == [k |-> "int64"]
tfloat32 == [k |-> "float32"]
tfloat64 == [k |-> "float64"]
tstr == [k |-> "str"]
tbool == [k |-> "bool"]
tcall == [k |-> "call"]

InternedKinds == {"void", "int32", "int64", "float32", "float64", "str", "bool", "call"}

tarray(element_type) == [k |-> "array", elem |-> element_type]
tset(element_type) == [k |-> "set", elem |-> element_type]
tinterval(point_type) == [k |-> "interval", elem |-> point_type]
tndarray(element_type, ndim) == [k |-> "ndarray", elem |-> element_type, ndim |-> ndim]
tdict(key_type, value_type) == [k |-> "dict", key |-> key_type, value |-> value_type]
tstruct(fields, types) == [k |-> "struct", fields |-> fields, types |-> types]
tunion(cases, types) == [k |-> "union", fields |-> cases, types |-> types]
ttuple(types) == [k |-> "tuple", types |-> types]
tlocus(rg) == [k |-> "locus", rg |-> rg]
tvariable(name, cond, box) == [k |-> "var", name |-> name, cond |-> cond, box |-> box]

\* a variable as the caller writes it, before __init__ has looked up its box
VarExpr(name, cond) == [k |-> "var", name |-> name, cond |-> cond]

ElemKinds == {"array", "set", "interval", "ndarray"}
FieldKinds == {"struct", "union"}
SeqKinds == {"struct", "union", "tuple"}

(***************************************************************************)
(* HailType.__eq__ / _eq, as truthiness of `self == other`                 *)
(***************************************************************************)
RECURSIVE TypeEq(_, _)

\* a struct equality that compares the fields as a name -> type mapping
FieldsEq_unordered(self, other) ==
    /\ other.k = self.k
    /\ Len(self.fields) = Len(other.fields)
    /\ \A i \in 1..Len(self.fields) :
          \E j \in 1..Len(other.fields) :
              other.fields[j] = self.fields[i] /\ TypeEq(self.types[i], other.types[j])

\* tstruct._eq and tunion._eq: self[f] == other[f] looks the field up by name
FieldsEq(self, other) ==
    /\ other.k = self.k
    /\ self.fields = other.fields
    /\ \A i \in 1..Len(self.fields) :
          \E j \in 1..Len(other.fields) :
              other.fields[j] = self.fields[i] /\ TypeEq(self.types[i], other.types[j])

\* ttuple._eq
TupleEq(self, other) ==
    /\ other.k = "tuple"
    /\ Len(self.types) = Len(other.types)
    /\ \A i \in 1..Len(self.types) : TypeEq(self.types[i], other.types[i])

\* tndarray._eq: the rank is not compared
NDArrayEq(self, other) == other.k = "ndarray" /\ TypeEq(self.elem, other.elem)

\* _tint32._eq and the _eq of the other interned types: isinstance(other, <own class>)
InternedEq(self, other) == other.k = self.k

\* tarray._eq, tset._eq, tinterval._eq
ElemEq(self, other) == other.k = self.k /\ TypeEq(self.elem, other.elem)

\* tdict._eq
DictEq(self, other) ==
    /\ other.k = "dict"
    /\ TypeEq(self.key, other.key)
    /\ TypeEq(self.value, other.value)

\* tlocus._eq
LocusEq(self, other) == other.k = "locus" /\ self.rg = other.rg

\* HailType.__eq__: other is a HailType, and self._eq(other)
TypeEq(self, other) ==
    CASE self.k \in InternedKinds -> InternedEq(self, other)
      [] self.k \in {"array", "set", "interval"} -> ElemEq(self, other)
      [] self.k = "ndarray" -> NDArrayEq(self, other)
      [] self.k = "dict" -> DictEq(self, other)
      [] self.k \in FieldKinds -> FieldsEq(self, other)
      [] self.k = "tuple" -> TupleEq(self, other)
      [] self.k = "locus" -> LocusEq(self, other)
      [] OTHER -> FALSE  \* tvariable inherits HailType._eq, which returns None

(***************************************************************************)
(* tvariable._cond_map                                                     *)
(***************************************************************************)
is_numeric(t) == t.k \in {"bool", "int32", "int64", "float32", "float64"}

condf(cond, x) ==
    CASE cond = "numeric" -> is_numeric(x)
      [] cond = "int32" -> TypeEq(x, tint32)
      [] cond = "int64" -> TypeEq(x, tint64)
      [] cond = "float32" -> TypeEq(x, tfloat32)
      [] cond = "float64" -> TypeEq(x, tfloat64)
      [] cond = "locus" -> x.k = "locus"
      [] cond = "struct" -> x.k = "struct"
      [] cond = "union" -> x.k = "union"
      [] cond = "tuple" -> x.k = "tuple"

(***************************************************************************)
(* Box                                                                     *)
(***************************************************************************)
\* Box.from_name that makes a new Box on every call
from_name_fresh(name, nb, bv) ==
    [box |-> Len(bv) + 1,
     named_boxes |-> [n \in DOMAIN nb \cup {name} |-> IF n = name THEN Len(bv) + 1 ELSE nb[n]],
     box_value |-> Append(bv, NoValue)]

\* Box.from_name: [box, named_boxes, box_value] after the lookup
from_name(name, nb, bv) ==
    IF name \in DOMAIN nb
    THEN [box |-> nb[name], named_boxes |-> nb, box_value |-> bv]
    ELSE [box |-> Len(bv) + 1,
          named_boxes |-> nb @@ (name :> (Len(bv) + 1)),
          box_value |-> Append(bv, NoValue)]

\* Box.unify that rebinds a box which already has a value
BoxUnify_rebinds(box, v, bv) ==
    [ret |-> PyBool(TRUE), box_value |-> [bv EXCEPT ![box] = v]]

\* Box.unify: [ret, box_value]
BoxUnify(box, v, bv) ==
    IF bv[box] # NoValue
    THEN [ret |-> PyBool(TypeEq(bv[box], v)), box_value |-> bv]
    ELSE [ret |-> PyBool(TRUE), box_value |-> [bv EXCEPT ![box] = v]]

\* Box.clear that forgets to delete the value
BoxClear_keeps(box, bv) == bv

\* Box.clear
BoxClear(box, bv) ==
    IF bv[box] # NoValue THEN [bv EXCEPT ![box] = NoValue] ELSE bv

\* Box.get
BoxGet(box, bv) ==
    IF bv[box] # NoValue THEN bv[box] ELSE Raise("AssertionError")

(***************************************************************************)
(* NatLiteral, the concrete rank of a tndarray (hail/expr/nat.py)          *)
(***************************************************************************)
NatUnify(n, other) == PyBool(n = other)
NatSubst(n) == n
NatClear(n, bv) == bv

(***************************************************************************)
(* Construction: evaluating a type expression builds the children first,   *)
(* left to right; tvariable.__init__ looks its box up by name.             *)
(***************************************************************************)
RECURSIVE Construct(_, _, _), ConstructSeq(_, _, _, _)

\* [node, named_boxes, box_value]
Construct(e, nb, bv) ==
    CASE e.k = "var" ->
            LET b == from_name(e.name, nb, bv)
            IN  [node |-> tvariable(e.name, e.cond, b.box),
                 named_boxes |-> b.named_boxes, box_value |-> b.box_value]
      [] e.k \in ElemKinds ->
            LET c == Construct(e.elem, nb, bv)
            IN  [c EXCEPT !.node = [e EXCEPT !.elem = c.node]]
      [] e.k = "dict" ->
            LET c1 == Construct(e.key, nb, bv)
                c2 == Construct(e.value, c1.named_boxes, c1.box_value)
            IN  [c2 EXCEPT !.node = tdict(c1.node, c2.node)]
      [] e.k \in SeqKinds ->
            LET c == ConstructSeq(e.types, 1, nb, bv)
            IN  [c EXCEPT !.node = [e EXCEPT !.types = c.node]]
      [] OTHER -> [node |-> e, named_boxes |-> nb, box_value |-> bv]

\* the same for the children es[i..], node being the sequence of their nodes
ConstructSeq(es, i, nb, bv) ==
    IF i > Len(es)
    THEN [node |-> <<>>, named_boxes |-> nb, box_value |-> bv]
    ELSE LET c == Construct(es[i], nb, bv)
             rest == ConstructSeq(es, i + 1, c.named_boxes, c.box_value)
         IN  [rest EXCEPT !.node = <<c.node>> \o rest.node]

(***************************************************************************)
(* unify: [ret, box_value]                                                 *)
(***************************************************************************)
RECURSIVE Unify(_, _, _), UnifyFields(_, _, _, _), UnifyTypes(_, _, _, _)

\* tvariable.unify that consults the constraint only after the box
VarUnify_unchecked(self, t, bv) == BoxUnify(self.box, t, bv)

\* tvariable.unify
VarUnify(self, t, bv) ==
    IF self.cond # "None" /\ ~condf(self.cond, t)
    THEN [ret |-> PyBool(FALSE), box_value |-> bv]
    ELSE BoxUnify(self.box, t, bv)

\* tdict.unify
DictUnify(self, t, bv) ==
    IF t.k # "dict"
    THEN [ret |-> PyBool(FALSE), box_value |-> bv]
    ELSE LET r1 == Unify(self.key, t.key, bv)
         IN  IF IsTrue(r1.ret) THEN Unify(self.value, t.value, r1.box_value) ELSE r1

\* tndarray.unify
NDArrayUnify(self, t, bv) ==
    IF t.k # "ndarray"
    THEN [ret |-> PyBool(FALSE), box_value |-> bv]
    ELSE LET r1 == Unify(self.elem, t.elem, bv)
         IN  IF IsTrue(r1.ret)
             THEN [ret |-> NatUnify(self.ndim, t.ndim), box_value |-> r1.box_value]
             ELSE r1

\* tstruct.unify
StructUnify(self, t, bv) ==
    IF ~(t.k = "struct" /\ Len(self.fields) = Len(t.fields))
    THEN [ret |-> PyBool(FALSE), box_value |-> bv]
    ELSE UnifyFields(self, t, 1, bv)

\* tunion.unify: the name `union` in its first line is bound nowhere
UnionUnify(self, t, bv) == [ret |-> Raise("NameError"), box_value |-> bv]

\* ttuple.unify
TupleUnify(self, t, bv) ==
    IF ~(t.k = "tuple" /\ Len(self.types) = Len(t.types))
    THEN [ret |-> PyBool(FALSE), box_value |-> bv]
    ELSE UnifyTypes(self.types, t.types, 1, bv)

\* _tint32.unify and the unify of the other interned types: t == <the instance>
InternedUnify(self, t, bv) == [ret |-> PyBool(TypeEq(t, self)), box_value |-> bv]

\* tlocus.unify
LocusUnify(self, t, bv) ==
    [ret |-> PyBool(t.k = "locus" /\ self.rg = t.rg), box_value |-> bv]

\* tarray.unify, tset.unify, tinterval.unify
ElemUnify(self, t, bv) ==
    IF t.k # self.k
    THEN [ret |-> PyBool(FALSE), box_value |-> bv]
    ELSE Unify(self.elem, t.elem, bv)

\* self.unify(t), dispatched on the class of self
Unify(self, t, bv) ==
    CASE self.k \in InternedKinds -> InternedUnify(self, t, bv)
      [] self.k = "locus" -> LocusUnify(self, t, bv)
      [] self.k \in {"array", "set", "interval"} -> ElemUnify(self, t, bv)
      [] self.k = "ndarray" -> NDArrayUnify(self, t, bv)
      [] self.k = "dict" -> DictUnify(self, t, bv)
      [] self.k = "struct" -> StructUnify(self, t, bv)
      [] self.k = "union" -> UnionUnify(self, t, bv)
      [] self.k = "tuple" -> TupleUnify(self, t, bv)
      [] self.k = "var" -> VarUnify(self, t, bv)

\* tstruct.unify matching the candidate's fields by name instead of by position
UnifyFields_byname(self, t, i, bv) ==
    IF i > Len(self.fields)
    THEN [ret |-> PyBool(TRUE), box_value |-> bv]
    ELSE IF \A j \in 1..Len(t.fields) : t.fields[j] # self.fields[i]
         THEN [ret |-> PyBool(FALSE), box_value |-> bv]
         ELSE LET j == CHOOSE j \in 1..Len(t.fields) : t.fields[j] = self.fields[i]
                  r == Unify(self.types[i], t.types[j], bv)
              IN  IF IsRaise(r.ret) THEN r
                  ELSE IF ~IsTrue(r.ret)
                       THEN [ret |-> PyBool(FALSE), box_value |-> r.box_value]
                       ELSE UnifyFields(self, t, i + 1, r.box_value)

\* the loop of tstruct.unify from field i on
UnifyFields(self, t, i, bv) ==
    IF i > Len(self.fields)
    THEN [ret |-> PyBool(TRUE), box_value |-> bv]
    ELSE IF self.fields[i] # t.fields[i]
         THEN [ret |-> PyBool(FALSE), box_value |-> bv]
         ELSE LET r == Unify(self.types[i], t.types[i], bv)
              IN  IF IsRaise(r.ret) THEN r
                  ELSE IF ~IsTrue(r.ret)
                       THEN [ret |-> PyBool(FALSE), box_value |-> r.box_value]
                       ELSE UnifyFields(self, t, i + 1, r.box_value)

\* the loop of ttuple.unify from element i on
UnifyTypes(ts, us, i, bv) ==
    IF i > Len(ts)
    THEN [ret |-> PyBool(TRUE), box_value |-> bv]
    ELSE LET r == Unify(ts[i], us[i], bv)
         IN  IF IsRaise(r.ret) THEN r
             ELSE IF ~IsTrue(r.ret)
                  THEN [ret |-> PyBool(FALSE), box_value |-> r.box_value]
                  ELSE UnifyTypes(ts, us, i + 1, r.box_value)

(***************************************************************************)
(* subst: the new Type Node, or Raise                                      *)
(***************************************************************************)
RECURSIVE Subst(_, _), SubstSeq(_, _, _)

\* tvariable.subst that leaves an unbound variable in place
VarSubst_lenient(self, bv) == IF bv[self.box] # NoValue THEN bv[self.box] ELSE self

\* tvariable.subst
VarSubst(self, bv) == BoxGet(self.box, bv)

\* a subst that returns the receiver without rebuilding it
ElemSubst_self(self, bv) == self

\* tarray.subst, tset.subst, tinterval.subst
ElemSubst(self, bv) ==
    LET e == Subst(self.elem, bv)
    IN  IF IsRaise(e) THEN e ELSE [k |-> self.k, elem |-> e]

\* tdict.subst
DictSubst(self, bv) ==
    LET kt == Subst(self.key, bv)
        vt == Subst(self.value, bv)
    IN  IF IsRaise(kt) THEN kt ELSE IF IsRaise(vt) THEN vt ELSE tdict(kt, vt)

\* tndarray.subst
NDArraySubst(self, bv) ==
    LET e == Subst(self.elem, bv)
    IN  IF IsRaise(e) THEN e ELSE tndarray(e, NatSubst(self.ndim))

\* tstruct.subst, tunion.subst
FieldsSubst(self, bv) ==
    LET ts == SubstSeq(self.types, 1, bv)
    IN  IF IsRaise(ts) THEN ts
        ELSE [k |-> self.k, fields |-> self.fields, types |-> ts.types]

\* ttuple.subst
TupleSubst(self, bv) ==
    LET ts == SubstSeq(self.types, 1, bv)
    IN  IF IsRaise(ts) THEN ts ELSE ttuple(ts.types)

\* self.subst(), dispatched on the class of self; the interned types and
\* tlocus return self
Subst(self, bv) ==
    CASE self.k = "var" -> VarSubst(self, bv)
      [] self.k \in {"array", "set", "interval"} -> ElemSubst(self, bv)
      [] self.k = "ndarray" -> NDArraySubst(self, bv)
      [] self.k = "dict" -> DictSubst(self, bv)
      [] self.k \in FieldKinds -> FieldsSubst(self, bv)
      [] self.k = "tuple" -> TupleSubst(self, bv)
      [] OTHER -> self

\* the comprehension [t.subst() for t in types] from element i on
SubstSeq(types, i, bv) ==
    IF i > Len(types)
    THEN [k |-> "list", types |-> <<>>]
    ELSE LET t == Subst(types[i], bv)
         IN  IF IsRaise(t) THEN t
             ELSE LET rest == SubstSeq(types, i + 1, bv)
                  IN  IF IsRaise(rest) THEN rest
                      ELSE [k |-> "list", types |-> <<t>> \o rest.types]

(***************************************************************************)
(* clear: box_value afterwards                                             *)
(***************************************************************************)
RECURSIVE Clear(_, _), ClearSeq(_, _, _)

\* tdict.clear
DictClear(self, bv) == Clear(self.value, Clear(self.key, bv))

\* tndarray.clear
NDArrayClear(self, bv) == NatClear(self.ndim, Clear(self.elem, bv))

\* tvariable.clear
VarClear(self, bv) == BoxClear(self.box, bv)

\* tarray.clear, tset.clear, tinterval.clear
ElemClear(self, bv) == Clear(self.elem, bv)

\* self.clear(), dispatched on the class of self; the interned types and
\* tlocus do nothing
Clear(self, bv) ==
    CASE self.k = "var" -> VarClear(self, bv)
      [] self.k \in {"array", "set", "interval"} -> ElemClear(self, bv)
      [] self.k = "ndarray" -> NDArrayClear(self, bv)
      [] self.k = "dict" -> DictClear(self, bv)
      [] self.k \in SeqKinds -> ClearSeq(self.types, 1, bv)
      [] OTHER -> bv

\* a clear that stops after the first child
ClearSeq_first(types, i, bv) ==
    IF i > Len(types) THEN bv ELSE Clear(types[i], bv)

\* the loops of tstruct.clear, tunion.clear and ttuple.clear from element i on
ClearSeq(types, i, bv) ==
    IF i > Len(types) THEN bv ELSE ClearSeq(types, i + 1, Clear(types[i], bv))

(***************************************************************************)
(* The inputs: type expressions the caller constructs (signatures, with    *)
(* variables) and the variable-free candidates it unifies them against.    *)
(***************************************************************************)
Slots == 1..MaxObjs

X == VarExpr("x", "None")
Xn == VarExpr("x", "numeric")
Y == VarExpr("y", "None")
Yt == VarExpr("y", "tuple")

\* bare variables, as two call sites of one signature would hold them
VarExprs == {X, Xn, Yt}

VarCandidates ==
    {tint32, tint64, tstr, ttuple(<<tint32, tint32>>)}
        \cup {tndarray(tstr, n) : n \in 1..MaxRank}

\* signatures
TypeExprs ==
    { Xn, Yt,
      tarray(Xn),
      ttuple(<<X, X>>),
      ttuple(<<Xn, Y>>),
      ttuple(<<Y, tint32>>),
      tdict(X, X),
      tstruct(<<"a", "b">>, <<Xn, Y>>),
      tunion(<<"a">>, <<X>>),
      tset(tinterval(Y)),
      tndarray(Y, 1),
      tint32 }

Candidates ==
    { tint32, tint64, tstr,
      tarray(tint32),
      ttuple(<<tint32, tint32>>),
      ttuple(<<tint32, tint64>>),
      tdict(tint32, tint32),
      tdict(tint32, tstr),
      tstruct(<<"a", "b">>, <<tint32, tstr>>),
      tstruct(<<"b", "a">>, <<tstr, tint32>>),
      tstruct(<<"a", "b">>, <<tstr, tint32>>),
      tstruct(<<"a">>, <<tint32>>),
      tunion(<<"a">>, <<tint32>>),
      tset(tinterval(tstr)),
      ttuple(<<tndarray(tstr, 1), tndarray(tstr, MaxRank)>>) }
        \cup {tndarray(tstr, n) : n \in 1..MaxRank}

\* variable-free Type Nodes to compare
EqTypes ==
    { tint32, tstr,
      tstruct(<< >>, << >>),
      tstruct(<<"a">>, <<tint32>>),
      tstruct(<<"a", "b">>, <<tint32, tstr>>),
      tstruct(<<"b", "a">>, <<tstr, tint32>>),
      tstruct(<<"a", "b">>, <<tstr, tint32>>),
      tstruct(<<"a", "b">>, <<tint32, tint32>>),
      tstruct(<<"a", "b">>, <<tint32, ttuple(<<tstr>>)>>),
      tstruct(<<"b", "a">>, <<ttuple(<<tstr>>), tint32>>),
      tunion(<<"a", "b">>, <<tint32, tstr>>),
      tunion(<<"b", "a">>, <<tstr, tint32>>),
      tunion(<<"a", "b">>, <<tint32, tint32>>),
      ttuple(<< >>),
      ttuple(<<tint32>>),
      ttuple(<<tint32, tstr>>),
      ttuple(<<tstr, tint32>>),
      ttuple(<<tint32, tstr, tstr>>),
      ttuple(<<tint32, tstruct(<<"a">>, <<tint32>>)>>),
      ttuple(<<tint32, tstruct(<<"a">>, <<tstr>>)>>) }
        \cup {tstruct(<<"a">>, <<tndarray(tint32, n)>>) : n \in 1..MaxRank}
        \cup {ttuple(<<tndarray(tint32, n)>>) : n \in 1..MaxRank}
        \cup {tndarray(tint32, n) : n \in 1..MaxRank}

(***************************************************************************)
(* State machine                                                           *)
(***************************************************************************)
\* a thread that is not in get_context() and has not been
Threads == 1..MaxThreads
Idle == [pc |-> "idle", path |-> << >>, local |-> PyNone, ret |-> PyNone]

Init ==
    /\ named_boxes = << >>
    /\ box_value = << >>
    /\ objs = [i \in Slots |-> NoObj]
    /\ call = [op |-> "init", slot |-> 0, arg |-> NoObj]
    /\ ret = PyNone
    /\ pre = << >>
    /\ context = {}
    /\ threads = [t \in Threads |-> Idle]

\* the history the model keeps of a call
Called(op, i, t) ==
    /\ call' = [op |-> op, slot |-> i, arg |-> t]
    /\ pre' = box_value

\* HailType.__init__ of the nodes put in slot i: their `_context` is None;
\* the interned singletons (slot 0) are not constructed again
Constructed(cache, i) == {e \in cache : e.node.slot # i}

\* objs[i] = <type expression e>
New(i, e) ==
    LET c == Construct(e, named_boxes, box_value)
    IN  /\ objs' = [objs EXCEPT ![i] = c.node]
        /\ context' = Constructed(context, i)
        /\ UNCHANGED threads
        /\ named_boxes' = c.named_boxes
        /\ box_value' = c.box_value
        /\ ret' = PyNone
        /\ Called("new", i, NoObj)

\* objs[i].unify(t)
UnifyCall(i, t) ==
    /\ objs[i] # NoObj
    /\ LET r == Unify(objs[i], t, box_value)
       IN  /\ box_value' = r.box_value
           /\ ret' = r.ret
    /\ Called("unify", i, t)
    /\ UNCHANGED <<named_boxes, objs, context, threads>>

\* objs[i].subst()
SubstCall(i) ==
    /\ objs[i] # NoObj
    /\ ret' = Subst(objs[i], box_value)
    /\ Called("subst", i, NoObj)
    /\ UNCHANGED <<named_boxes, box_value, objs, context, threads>>

\* objs[i].clear()
ClearCall(i) ==
    /\ objs[i] # NoObj
    /\ box_value' = Clear(objs[i], box_value)
    /\ ret' = PyNone
    /\ Called("clear", i, NoObj)
    /\ UNCHANGED <<named_boxes, objs, context, threads>>

\* objs[i] == t
EqCall(i, t) ==
    /\ objs[i] # NoObj
    /\ ret' = PyBool(TypeEq(objs[i], t))
    /\ Called("eq", i, t)
    /\ UNCHANGED <<named_boxes, box_value, objs, context, threads>>

\* a caller working with one signature at a time
Next ==
    \/ \E e \in TypeExprs : New(1, e)
    \/ \E t \in Candidates : UnifyCall(1, t)
    \/ SubstCall(1)
    \/ ClearCall(1)

Spec == Init /\ [][Next]_vars

\* callers holding separately constructed variables
NextVar ==
    \/ \E i \in Slots, e \in VarExprs : New(i, e)
    \/ \E i \in Slots, t \in VarCandidates : UnifyCall(i, t)
    \/ \E i \in Slots : SubstCall(i)
    \/ \E i \in Slots : ClearCall(i)

SpecVar == Init /\ [][NextVar]_vars

\* a caller comparing variable-free Type Nodes
NextEq ==
    \/ \E e \in EqTypes : New(1, e)
    \/ \E t \in EqTypes : EqCall(1, t)

SpecEq == Init /\ [][NextEq]_vars

(***************************************************************************)
(* Properties.  Equality of Type Nodes is the program's `==` (TypeEq).     *)
(***************************************************************************)
\* the receiver of the last call
Recv == objs[call.slot]

Satisfies(v, t) == v.cond = "None" \/ condf(v.cond, t)

\* C1: tvariable.unify(t) on an unbound cell returns True and binds the cell to
\* t exactly when t satisfies the variable's constraint (or there is none), and
\* otherwise returns False and leaves the cell unbound; on a cell bound to v it
\* returns True only if t == v, and the cell stays bound to v.
C1_VarUnify ==
    (call.op = "unify" /\ Recv.k = "var") =>
        LET b == Recv.box
            t == call.arg
        IN  IF pre[b] = NoValue
            THEN IF Satisfies(Recv, t)
                 THEN ret = PyBool(TRUE) /\ box_value[b] = t
                 ELSE ret = PyBool(FALSE) /\ box_value[b] = NoValue
            ELSE /\ IsTrue(ret) => TypeEq(t, pre[b])
                 /\ ret.k = "pybool"
                 /\ box_value[b] = pre[b]

\* a constrained variable was unbound and this unify bound it
C1_Witness ==
    /\ call.op = "unify" /\ Recv.k = "var" /\ Recv.cond = "numeric"
    /\ pre[Recv.box] = NoValue
    /\ box_value[Recv.box] = call.arg
    /\ ret = PyBool(TRUE)

\* C2: for ?x:numeric starting unbound, unify(int32) succeeds and binds; a
\* following unify(str) without clear() fails; after clear(), unify(str) still
\* fails and unify(int64) succeeds.  In general the unify(t) that directly
\* follows a clear() of the same cell succeeds exactly when t satisfies the
\* constraint of the variable it is called on.
C2_Step ==
    call'.op = "unify" =>
        LET v == objs[call'.slot]
            t == call'.arg
        IN  /\ (call.op = "clear" /\ Recv.box = v.box) =>
                    (ret' = PyBool(TRUE) <=> Satisfies(v, t))
            /\ (call.op = "clear" /\ Recv.box = v.box /\ ~Satisfies(v, t)) =>
                    ret' = PyBool(FALSE)
            /\ (v.cond = "numeric" /\ box_value[v.box] = NoValue /\ t = tint32) =>
                    (ret' = PyBool(TRUE) /\ box_value'[v.box] = tint32)
            /\ (v.cond = "numeric" /\ call.op = "unify" /\ call.slot = call'.slot
                    /\ call.arg = tint32 /\ ret = PyBool(TRUE) /\ t = tstr) =>
                    ret' = PyBool(FALSE)
            /\ (v.cond = "numeric" /\ call.op = "clear" /\ call.slot = call'.slot) =>
                    /\ t = tstr => ret' = PyBool(FALSE)
                    /\ t = tint64 => ret' = PyBool(TRUE)

C2_ClearThenUnify == [][C2_Step]_vars

\* ?x:numeric, unbound again, has just been unified with int64
C2_Witness ==
    /\ call.op = "unify" /\ Recv.k = "var" /\ Recv.cond = "numeric"
    /\ call.arg = tint64
    /\ pre[Recv.box] = NoValue
    /\ ret = PyBool(TRUE)
    /\ \E i \in Slots : objs[i] # NoObj /\ objs[i].name = Recv.name /\ objs[i].cond # Recv.cond

(***************************************************************************)
(* Helpers of the properties about signatures                              *)
(***************************************************************************)
RECURSIVE BoxesOf(_), Built(_, _), Occurrences(_, _)

SeqUnion(f, n) == UNION {f[i] : i \in 1..n}

\* the boxes of the variables that occur in a Type Node
BoxesOf(t) ==
    CASE t.k = "var" -> {t.box}
      [] t.k \in ElemKinds -> BoxesOf(t.elem)
      [] t.k = "dict" -> BoxesOf(t.key) \cup BoxesOf(t.value)
      [] t.k \in SeqKinds -> SeqUnion([i \in 1..Len(t.types) |-> BoxesOf(t.types[i])], Len(t.types))
      [] OTHER -> {}

\* t is built from constructors of the kinds ks, leaves being of any other kind
Built(t, ks) ==
    CASE t.k \in {"var", "locus"} \cup InternedKinds -> t.k \in ks
      [] t.k \in ElemKinds -> t.k \in ks /\ Built(t.elem, ks)
      [] t.k = "dict" -> t.k \in ks /\ Built(t.key, ks) /\ Built(t.value, ks)
      [] t.k \in SeqKinds -> t.k \in ks /\ \A i \in 1..Len(t.types) : Built(t.types[i], ks)

AllKinds == InternedKinds \cup ElemKinds \cup SeqKinds \cup {"dict", "locus", "var"}
VariableFree(t) == Built(t, AllKinds \ {"var"})

\* the pairs <<variable name, candidate subterm>> met when template and
\* candidate are walked together, as far as their shapes agree
Occurrences(t, c) ==
    CASE t.k = "var" -> {<<t.name, c>>}
      [] t.k \in ElemKinds /\ c.k = t.k -> Occurrences(t.elem, c.elem)
      [] t.k = "dict" /\ c.k = "dict" ->
            Occurrences(t.key, c.key) \cup Occurrences(t.value, c.value)
      [] t.k \in SeqKinds /\ c.k = t.k /\ Len(c.types) = Len(t.types) ->
            SeqUnion([i \in 1..Len(t.types) |-> Occurrences(t.types[i], c.types[i])],
                     Len(t.types))
      [] OTHER -> {}

\* the last call was a unify that started with every variable of the receiver unbound
FreshUnify ==
    /\ call.op = "unify"
    /\ \A b \in BoxesOf(Recv) : pre[b] = NoValue

\* C3: for a template T built from array, set, dict, struct, tuple, interval,
\* primitives and variables and a variable-free candidate C: if all variables
\* of T are unbound and T.unify(C) returns True, then T.subst() is a
\* variable-free Type Node and T.subst() == C.
C3_SubstAfterUnify ==
    (/\ FreshUnify
     /\ ret = PyBool(TRUE)
     /\ Built(Recv, InternedKinds \cup {"var", "array", "set", "dict", "struct", "tuple", "interval"})) =>
        LET s == Subst(Recv, box_value)
        IN  /\ ~IsRaise(s)
            /\ VariableFree(s)
            /\ TypeEq(s, call.arg)
            /\ TypeEq(call.arg, s)

\* array<?x:numeric> unified with array<int32> substitutes to array<int32>
C3_Witness ==
    /\ FreshUnify
    /\ ret = PyBool(TRUE)
    /\ Recv.k = "array" /\ Recv.elem.k = "var" /\ Recv.elem.cond = "numeric"
    /\ call.arg = tarray(tint32)
    /\ Subst(Recv, box_value) = tarray(tint32)

\* C4: when one variable name occurs at several positions of a template, a
\* unify that starts with the variable unbound returns True only if the
\* candidate's types at all those positions are equal (==): tuple(?x, ?x)
\* against tuple(int32, int32) succeeds, against tuple(int32, int64) fails.
C4_RepeatedVariable ==
    FreshUnify =>
        /\ ret = PyBool(TRUE) =>
              \A p, q \in Occurrences(Recv, call.arg) : p[1] = q[1] => TypeEq(p[2], q[2])
        /\ (Recv.k = "tuple" /\ Len(Recv.types) = 2
              /\ Recv.types[1].k = "var" /\ Recv.types[2].k = "var"
              /\ Recv.types[1].name = Recv.types[2].name
              /\ Recv.types[1].cond = "None" /\ Recv.types[2].cond = "None") =>
              /\ call.arg = ttuple(<<tint32, tint32>>) => ret = PyBool(TRUE)
              /\ call.arg = ttuple(<<tint32, tint64>>) => ret = PyBool(FALSE)

\* tuple(?x, ?x) has been unified with tuple(int32, int32)
C4_Witness ==
    /\ FreshUnify
    /\ Recv.k = "tuple" /\ Recv.types[1].k = "var" /\ Recv.types[2].k = "var"
    /\ Recv.types[1].name = Recv.types[2].name
    /\ call.arg = ttuple(<<tint32, tint32>>)
    /\ ret = PyBool(TRUE)

\* C5: unify never raises: for every template and candidate, of any variant,
\* unify returns a boolean.
C5_UnifyNeverRaises == call.op = "unify" => ret.k = "pybool"

RECURSIVE UnifiedInOrder(_, _, _, _)

\* unifying ts[i..] with us[i..] one position after the other, each starting
\* from the bindings the one before left: [ok, box_value]
UnifiedInOrder(ts, us, i, bv) ==
    IF i > Len(ts)
    THEN [ok |-> TRUE, box_value |-> bv]
    ELSE LET r == Unify(ts[i], us[i], bv)
         IN  IF r.ret = PyBool(TRUE)
             THEN UnifiedInOrder(ts, us, i + 1, r.box_value)
             ELSE [ok |-> FALSE, box_value |-> r.box_value]

\* c holds the fields of struct t in another order
Reordered(t, c) ==
    /\ c.k = "struct"
    /\ Len(c.fields) = Len(t.fields)
    /\ c.fields # t.fields
    /\ \A i \in 1..Len(t.fields) : \E j \in 1..Len(c.fields) : c.fields[j] = t.fields[i]

\* C6: tstruct.unify(t) returns True only if t is a struct with the same
\* number of fields, equal field names at every position, and field types
\* that unify at every position, taken in field order; a candidate holding
\* the same fields in a different order does not unify.
C6_StructUnify ==
    (call.op = "unify" /\ Recv.k = "struct") =>
        /\ ret = PyBool(TRUE) =>
              /\ call.arg.k = "struct"
              /\ Len(call.arg.fields) = Len(Recv.fields)
              /\ \A i \in 1..Len(Recv.fields) : call.arg.fields[i] = Recv.fields[i]
              /\ UnifiedInOrder(Recv.types, call.arg.types, 1, pre).ok
              /\ UnifiedInOrder(Recv.types, call.arg.types, 1, pre).box_value = box_value
        /\ Reordered(Recv, call.arg) => ret = PyBool(FALSE)

\* a struct has been unified, with success, against a struct; its second
\* field was bound by this call
C6_Witness ==
    /\ call.op = "unify" /\ Recv.k = "struct" /\ call.arg.k = "struct"
    /\ ret = PyBool(TRUE)
    /\ Recv.types[2].k = "var"
    /\ pre[Recv.types[2].box] = NoValue
    /\ box_value[Recv.types[2].box] = call.arg.types[2]

\* C7: subst() on a type that contains a variable whose cell is unbound fails
\* with an AssertionError and returns no Type Node.
C7_SubstUnbound ==
    (call.op = "subst" /\ \E b \in BoxesOf(Recv) : pre[b] = NoValue) =>
        /\ ret = Raise("AssertionError")
        /\ box_value = pre

\* subst() of a composite type with one variable bound and another unbound
C7_Witness ==
    /\ call.op = "subst"
    /\ Recv.k \in SeqKinds
    /\ \E b \in BoxesOf(Recv) : pre[b] = NoValue
    /\ \E b \in BoxesOf(Recv) : pre[b] # NoValue
    /\ IsRaise(ret)

\* C8: after t.clear() every variable reachable from t is unbound, whatever
\* was unified before; clear() on a type whose variables are all unbound
\* succeeds and changes nothing.
C8_Clear ==
    call.op = "clear" =>
        /\ ret = PyNone
        /\ \A b \in BoxesOf(Recv) : box_value[b] = NoValue
        /\ (\A b \in BoxesOf(Recv) : pre[b] = NoValue) => box_value = pre

\* clear() of a struct two of whose variables were bound
C8_Witness ==
    /\ call.op = "clear"
    /\ Recv.k = "struct"
    /\ Cardinality(BoxesOf(Recv)) = 2
    /\ \A b \in BoxesOf(Recv) : pre[b] # NoValue /\ box_value[b] = NoValue

(***************************************************************************)
(* Properties of variables that share a name                               *)
(***************************************************************************)
\* the slots that hold a variable named n, and those that hold another one
Named(n) == {j \in Slots : objs[j] # NoObj /\ objs[j].k = "var" /\ objs[j].name = n}
NotNamed(n) == {j \in Slots : objs[j] # NoObj /\ objs[j].k = "var" /\ objs[j].name # n}

\* what subst() returns for a cell
Bound(c) == IF c = NoValue THEN Raise("AssertionError") ELSE c

\* C9: separately constructed variables with one name share one binding cell:
\* after one of them is bound by unify(v), subst() of another returns v and its
\* unify(w), w != v, returns False, until clear() is called through either of
\* them; a variable constructed later under a name used before sees the
\* binding left there.  Variables with different names never affect each
\* other's cells.
C9_Step ==
    /\ (call'.op \in {"unify", "clear"}) =>
          LET i == call'.slot
              n == objs[i].name
          IN  \* the call through objs[i] as the others see it
              /\ \A j \in Named(n) \ {i} :
                    /\ (call'.op = "unify" /\ box_value[objs[i].box] = NoValue
                            /\ ret' = PyBool(TRUE)) =>
                          /\ Subst(objs[j], box_value') = call'.arg
                          /\ \A w \in VarCandidates :
                                ~TypeEq(w, call'.arg) =>
                                    Unify(objs[j], w, box_value') =
                                        [ret |-> PyBool(FALSE), box_value |-> box_value']
                    /\ call'.op = "clear" =>
                          Subst(objs[j], box_value') = Raise("AssertionError")
              /\ \A j \in NotNamed(n) :
                    Subst(objs[j], box_value') = Subst(objs[j], box_value)
    \* a call through another variable of the name, directly after the binding
    /\ (/\ call.op = "unify" /\ ret = PyBool(TRUE)
        /\ call'.slot # call.slot
        /\ call'.op \in {"unify", "subst"}
        /\ objs[call'.slot].name = Recv.name) =>
          /\ call'.op = "subst" => ret' = box_value[Recv.box]
          /\ (call'.op = "unify" /\ ~TypeEq(call'.arg, box_value[Recv.box])) =>
                ret' = PyBool(FALSE) /\ box_value' = box_value
    \* a variable constructed under a name that is in use
    /\ (call'.op = "new" /\ objs'[call'.slot].name \in DOMAIN named_boxes) =>
          Subst(objs'[call'.slot], box_value') =
              Bound(box_value[named_boxes[objs'[call'.slot].name]])

C9_SharedCell == [][C9_Step]_vars

\* a variable constructed apart from the one that was bound returns the binding
C9_Witness ==
    /\ call.op = "subst"
    /\ ~IsRaise(ret)
    /\ \E j \in Named(Recv.name) :
          /\ j # call.slot
          /\ objs[j].cond # Recv.cond
          /\ Subst(objs[j], box_value) = ret

(***************************************************************************)
(* Properties of equality                                                  *)
(***************************************************************************)
\* C10: two structs (or two unions) are equal iff they have the same field
\* names in the same order and equal field types per field, so
\* struct{a:int32,b:str} != struct{b:str,a:int32}; two tuples are equal iff
\* they have the same length and pointwise equal element types.
C10_OrderSensitiveEq ==
    call.op = "eq" =>
        LET s == Recv
            o == call.arg
        IN  /\ (s.k \in FieldKinds /\ o.k = s.k) =>
                  (ret = PyBool(TRUE) <=>
                      /\ Len(s.fields) = Len(o.fields)
                      /\ \A i \in 1..Len(s.fields) :
                            s.fields[i] = o.fields[i] /\ TypeEq(s.types[i], o.types[i]))
            /\ (s.k = "tuple" /\ o.k = "tuple") =>
                  (ret = PyBool(TRUE) <=>
                      /\ Len(s.types) = Len(o.types)
                      /\ \A i \in 1..Len(s.types) : TypeEq(s.types[i], o.types[i]))
            /\ (s = tstruct(<<"a", "b">>, <<tint32, tstr>>)
                  /\ o = tstruct(<<"b", "a">>, <<tstr, tint32>>)) => ret = PyBool(FALSE)
            /\ ret.k = "pybool"

\* struct{a: int32, b: str} has been compared with struct{b: str, a: int32}
C10_Witness ==
    /\ call.op = "eq"
    /\ Recv = tstruct(<<"a", "b">>, <<tint32, tstr>>)
    /\ call.arg = tstruct(<<"b", "a">>, <<tstr, tint32>>)
    /\ ret = PyBool(FALSE)

(***************************************************************************)
(* Display form (__str__).  A Python string is modelled as the sequence of *)
(* its tokens: keywords, punctuation, identifiers and " " for a run of     *)
(* whitespace, BACKTICK for the quote of an escaped identifier.            *)
(***************************************************************************)
PyStr(toks) == [k |-> "pystr", toks |-> toks]

\* the names of the model that are not of the form \w+
Reserved == {"a b"}

\* hail.utils.java.escape_parsable: backticks around a name that needs them
escape_parsable(s) == IF s \in Reserved THEN <<"BACKTICK", s, "BACKTICK">> ELSE <<s>>

\* str(n) of a rank
NatStr(n) == <<ToString(n)>>

RECURSIVE Str(_), StrFields(_, _, _), StrTypes(_, _)

\* _tvoid.__str__
VoidStr(self) == <<"void">>

\* _tint32.__str__ and the other interned types but void
InternedStr(self) == <<self.k>>

\* tarray.__str__, tset.__str__, tinterval.__str__
ElemStr(self) == <<self.k, "<">> \o Str(self.elem) \o <<">">>

\* tndarray.__str__
NDArrayStr(self) ==
    <<"ndarray", "<">> \o Str(self.elem) \o <<",", " ">> \o NatStr(self.ndim) \o <<">">>

\* tdict.__str__
DictStr(self) ==
    <<"dict", "<">> \o Str(self.key) \o <<",", " ">> \o Str(self.value) \o <<">">>

\* tstruct.__str__, tunion.__str__
FieldsStr(self) == <<self.k, "{">> \o StrFields(self.fields, self.types, 1) \o <<"}">>

\* ttuple.__str__
TupleStr(self) == <<"tuple", "(">> \o StrTypes(self.types, 1) \o <<")">>

\* tlocus.__str__
LocusStr(self) == <<"locus", "<">> \o escape_parsable(self.rg) \o <<">">>

\* str(self)
Str(self) ==
    CASE self.k = "void" -> VoidStr(self)
      [] self.k \in InternedKinds \ {"void"} -> InternedStr(self)
      [] self.k \in {"array", "set", "interval"} -> ElemStr(self)
      [] self.k = "ndarray" -> NDArrayStr(self)
      [] self.k = "dict" -> DictStr(self)
      [] self.k \in FieldKinds -> FieldsStr(self)
      [] self.k = "tuple" -> TupleStr(self)
      [] self.k = "locus" -> LocusStr(self)

\* ', '.join('{}: {}'.format(escape_parsable(f), str(t)) for f, t in self.items())
StrFields(fields, types, i) ==
    IF i > Len(fields) THEN << >>
    ELSE escape_parsable(fields[i]) \o <<":", " ">> \o Str(types[i])
            \o (IF i < Len(fields) THEN <<",", " ">> ELSE << >>)
            \o StrFields(fields, types, i + 1)

\* ", ".join([str(t) for t in self.types])
StrTypes(types, i) ==
    IF i > Len(types) THEN << >>
    ELSE Str(types[i]) \o (IF i < Len(types) THEN <<",", " ">> ELSE << >>)
            \o StrTypes(types, i + 1)

(***************************************************************************)
(* The grammar of dtype (hail.expr.type_parsing), a parsing expression     *)
(* grammar: each rule returns whether it matched, what it built and the    *)
(* tokens it left.                                                         *)
(***************************************************************************)
Punct == {"<", ">", ",", " ", "{", "}", "(", ")", ":", "[", "]", "BACKTICK"}

NoParse == [ok |-> FALSE, node |-> NoObj, rest |-> << >>]
Parsed(n, rest) == [ok |-> TRUE, node |-> n, rest |-> rest]
NoParseSeq == [ok |-> FALSE, fields |-> << >>, types |-> << >>, rest |-> << >>]
ParsedSeq(fs, ts, rest) == [ok |-> TRUE, fields |-> fs, types |-> ts, rest |-> rest]
NoName == [ok |-> FALSE, name |-> "", rest |-> << >>]

\* the token s begins with
Lit(tok, s) == s # << >> /\ Head(s) = tok

RECURSIVE Ws(_)
\* _ = ~"\s*"
Ws(s) == IF Lit(" ", s) THEN Ws(Tail(s)) ELSE s

\* identifier = _ (simple_identifier / escaped_identifier) _
rule_identifier(s) ==
    LET s1 == Ws(s)
    IN  IF s1 = << >> THEN NoName
        ELSE IF Head(s1) \notin Punct \cup Reserved
        THEN [ok |-> TRUE, name |-> Head(s1), rest |-> Ws(Tail(s1))]
        ELSE IF Head(s1) = "BACKTICK" /\ Len(s1) >= 3 /\ s1[2] \notin Punct /\ s1[3] = "BACKTICK"
        THEN [ok |-> TRUE, name |-> s1[2], rest |-> Ws(SubSeq(s1, 4, Len(s1)))]
        ELSE NoName

\* the rank an identifier spells
NatOf(name) ==
    IF \E n \in 0..(MaxRank + 1) : ToString(n) = name
    THEN CHOOSE n \in 0..(MaxRank + 1) : ToString(n) = name
    ELSE -1

RECURSIVE rule_type(_), rule_types(_), rule_fields(_)

\* array / set / interval = keyword _ "<" type ">"
rule_elem(kind, s) ==
    LET s1 == Ws(s)
        e == rule_type(Tail(s1))
    IN  IF Lit("<", s1) /\ e.ok /\ Lit(">", e.rest)
        THEN Parsed([k |-> kind, elem |-> e.node], Tail(e.rest))
        ELSE NoParse

\* dict = keyword _ "<" type "," type ">"
rule_dict(s) ==
    LET s1 == Ws(s)
        kt == rule_type(Tail(s1))
        vt == rule_type(Tail(kt.rest))
    IN  IF Lit("<", s1) /\ kt.ok /\ Lit(",", kt.rest) /\ vt.ok /\ Lit(">", vt.rest)
        THEN Parsed(tdict(kt.node, vt.node), Tail(vt.rest))
        ELSE NoParse

\* ndarray = keyword _ "<" type "," identifier ">"
rule_ndarray(s) ==
    LET s1 == Ws(s)
        e == rule_type(Tail(s1))
        n == rule_identifier(Tail(e.rest))
    IN  IF Lit("<", s1) /\ e.ok /\ Lit(",", e.rest) /\ n.ok /\ NatOf(n.name) >= 0
              /\ Lit(">", n.rest)
        THEN Parsed(tndarray(e.node, NatOf(n.name)), Tail(n.rest))
        ELSE NoParse

\* struct / union = keyword _ "{" (fields / _) "}"
rule_struct(kind, s) ==
    LET s1 == Ws(s)
        fs == rule_fields(Tail(s1))
        body == IF fs.ok THEN fs ELSE ParsedSeq(<< >>, << >>, Ws(Tail(s1)))
    IN  IF Lit("{", s1) /\ Lit("}", body.rest)
        THEN Parsed([k |-> kind, fields |-> body.fields, types |-> body.types],
                    Tail(body.rest))
        ELSE NoParse

\* tuple = keyword _ "(" ((type ("," type)*) / _) ")"
rule_tuple(s) ==
    LET s1 == Ws(s)
        ts == rule_types(Tail(s1))
        body == IF ts.ok THEN ts ELSE ParsedSeq(<< >>, << >>, Ws(Tail(s1)))
    IN  IF Lit("(", s1) /\ Lit(")", body.rest)
        THEN Parsed(ttuple(body.types), Tail(body.rest))
        ELSE NoParse

\* locus = keyword _ "[" identifier "]"
rule_locus(s) ==
    LET s1 == Ws(s)
        rg == rule_identifier(Tail(s1))
    IN  IF Lit("[", s1) /\ rg.ok /\ Lit("]", rg.rest)
        THEN Parsed(tlocus(rg.name), Tail(rg.rest))
        ELSE NoParse

\* type = _ (array / set / dict / ndarray / struct / union / tuple / interval
\*           / locus / int64 / int32 / float32 / float64 / bool / str / call) _
rule_type(s) ==
    LET s1 == Ws(s)
        kw == Head(s1)
        r == Tail(s1)
        m == CASE kw \in {"array", "tarray"} -> rule_elem("array", r)
               [] kw \in {"set", "tset"} -> rule_elem("set", r)
               [] kw \in {"dict", "tdict"} -> rule_dict(r)
               [] kw \in {"ndarray", "tndarray"} -> rule_ndarray(r)
               [] kw \in {"struct", "tstruct"} -> rule_struct("struct", r)
               [] kw \in {"union", "tunion"} -> rule_struct("union", r)
               [] kw \in {"tuple", "ttuple"} -> rule_tuple(r)
               [] kw \in {"interval", "tinterval"} -> rule_elem("interval", r)
               [] kw \in {"locus", "tlocus"} -> rule_locus(r)
               [] kw \in {"int64", "tint64"} -> Parsed(tint64, r)
               [] kw \in {"int32", "tint32", "int", "tint"} -> Parsed(tint32, r)
               [] kw \in {"float32", "tfloat32"} -> Parsed(tfloat32, r)
               [] kw \in {"float64", "tfloat64", "float", "tfloat"} -> Parsed(tfloat64, r)
               [] kw \in {"bool", "tbool"} -> Parsed(tbool, r)
               [] kw \in {"str", "tstr"} -> Parsed(tstr, r)
               [] kw \in {"call", "tcall"} -> Parsed(tcall, r)
               [] OTHER -> NoParse
    IN  IF s1 # << >> /\ m.ok THEN Parsed(m.node, Ws(m.rest)) ELSE NoParse

\* type ("," type)*
rule_types(s) ==
    LET t == rule_type(s)
        more == rule_types(Tail(t.rest))
    IN  IF ~t.ok THEN NoParseSeq
        ELSE IF Lit(",", t.rest) /\ more.ok
        THEN ParsedSeq(<< >>, <<t.node>> \o more.types, more.rest)
        ELSE ParsedSeq(<< >>, <<t.node>>, t.rest)

\* fields = field ("," field)*, field = identifier ":" type
rule_fields(s) ==
    LET f == rule_identifier(s)
        t == rule_type(Tail(f.rest))
        more == rule_fields(Tail(t.rest))
    IN  IF ~(f.ok /\ Lit(":", f.rest) /\ t.ok) THEN NoParseSeq
        ELSE IF Lit(",", t.rest) /\ more.ok
        THEN ParsedSeq(<<f.name>> \o more.fields, <<t.node>> \o more.types, more.rest)
        ELSE ParsedSeq(<<f.name>>, <<t.node>>, t.rest)

\* dtype(type_str): the whole text has to match
dtype(type_str) ==
    LET r == rule_type(type_str.toks)
    IN  IF r.ok /\ r.rest = << >> THEN r.node ELSE Raise("ParseError")
(***************************************************************************)
(* Printing and parsing: str(objs[i]) and dtype(type_str)                  *)
(***************************************************************************)
\* variable-free Type Nodes of every variant
ParseTypes ==
    {tvoid, tint32, tint64, tfloat32, tfloat64, tstr, tbool, tcall,
     tarray(tint32), tset(tstr), tdict(tstr, tbool), tinterval(tint32),
     tstruct(<< >>, << >>), tstruct(<<"a", "b">>, <<tint32, tstr>>),
     tstruct(<<"a b">>, <<tint64>>), tunion(<<"a">>, <<tint32>>),
     ttuple(<< >>), ttuple(<<tint32, tstr>>), tlocus("GRCh37"),
     tarray(tstruct(<<"a">>, <<tarray(tfloat64)>>)),
     tdict(ttuple(<<tstr>>), tset(tcall))}
        \cup {tndarray(tfloat64, n) : n \in 1..MaxRank}

\* what callers hand to dtype: display forms, alias spellings, the locus of
\* the grammar and malformed text
TypeStrings ==
    {PyStr(Str(t)) : t \in ParseTypes}
        \cup {PyStr(s) : s \in {<<"int">>, <<"tfloat">>, <<" ", "tarray", " ", "<", "int", ">", " ">>,
                                <<"locus", "[", "GRCh37", "]">>, <<"array", "<", "int32">>,
                                <<"struct", "{", "a", "}">>, <<"int32", "int32">>, << >>}}

\* str(objs[i])
StrCall(i) ==
    /\ objs[i] # NoObj
    /\ ret' = PyStr(Str(objs[i]))
    /\ Called("str", i, NoObj)
    /\ UNCHANGED <<named_boxes, box_value, objs, context, threads>>

\* dtype(type_str)
DtypeCall(type_str) ==
    /\ ret' = dtype(type_str)
    /\ Called("dtype", 0, type_str)
    /\ UNCHANGED <<named_boxes, box_value, objs, context, threads>>

NextParse ==
    \/ \E e \in ParseTypes : New(1, e)
    \/ StrCall(1)
    \/ \E s \in TypeStrings : DtypeCall(s)

SpecParse == Init /\ [][NextParse]_vars

(***************************************************************************)
\* C11: for every constructible Type Node t (void, primitives, call, array,
\* set, dict, struct, union, tuple, interval, locus, ndarray), str(t) is
\* accepted by the grammar and dtype(str(t)) == t.
C11_ParseStr ==
    call.op = "dtype" =>
        \A t \in ParseTypes :
            call.arg = PyStr(Str(t)) => ~IsRaise(ret) /\ TypeEq(ret, t)

\* the same for every variant but void and locus, which is what the code does
C11_ParseStrButVoidLocus ==
    call.op = "dtype" =>
        \A t \in ParseTypes :
            (call.arg = PyStr(Str(t)) /\ t.k \notin {"void", "locus"})
                => ~IsRaise(ret) /\ TypeEq(ret, t)

(***************************************************************************)
(* Python values that are checked, encoded and decoded.  The JSON side is  *)
(* what json.loads gives: None, bool, int, float, str, list and dict.      *)
(***************************************************************************)
PyInt(n) == [k |-> "pyint", v |-> n]
\* cls is "finite", "nan", "inf" or "-inf"; n is the value of a finite one
PyFloat(cls, n) == [k |-> "pyfloat", v |-> [cls |-> cls, n |-> n]]
PyList(items) == [k |-> "pylist", v |-> items]
PyTuple(items) == [k |-> "pytuple", v |-> items]
PySet(elems) == [k |-> "pyset", v |-> elems]
\* a dict is the sequence of its <<key, value>> pairs in insertion order
PyDict(pairs) == [k |-> "pydict", v |-> pairs]
\* hail.utils.Struct, a Mapping from field names to values
Struct(fields, vals) == [k |-> "Struct", v |-> [fields |-> fields, vals |-> vals]]
\* hail.utils.Interval
Interval(start, end, includes_start, includes_end, point_type) ==
    [k |-> "Interval", v |-> [start |-> start, end |-> end, includes_start |-> includes_start,
                              includes_end |-> includes_end, point_type |-> point_type]]
\* hail.genetics.Locus
Locus(contig, position, reference_genome) ==
    [k |-> "Locus", v |-> [contig |-> contig, position |-> position,
                           reference_genome |-> reference_genome]]

\* the text of a one-token string, as a field name
Name(s) == IF s.k = "pystr" /\ Len(s.toks) = 1 THEN s.toks[1] ELSE ""
Key(f) == PyStr(<<f>>)

\* the first exception in a sequence of results, or PyNone
RECURSIVE FirstRaise(_)
FirstRaise(rs) ==
    IF rs = << >> THEN PyNone
    ELSE IF IsRaise(Head(rs)) THEN Head(rs) ELSE FirstRaise(Tail(rs))

RECURSIVE SetToSeq(_)
\* the elements of a set in the order an iteration meets them
SetToSeq(S) ==
    IF S = {} THEN << >>
    ELSE LET e == CHOOSE e \in S : TRUE IN <<e>> \o SetToSeq(S \ {e})

\* bool(x)
Truthy(x) ==
    CASE x.k = "pynone" -> FALSE
      [] x.k = "pybool" -> x.v
      [] x.k = "pyint" -> x.v # 0
      [] x.k = "pyfloat" -> ~(x.v.cls = "finite" /\ x.v.n = 0)
      [] x.k = "pystr" -> x.toks # << >>
      [] x.k \in {"pylist", "pytuple", "pydict"} -> x.v # << >>
      [] x.k = "pyset" -> x.v # {}
      [] x.k = "Struct" -> x.v.fields # << >>
      [] OTHER -> TRUE

\* isinstance(x, int): bool is a subclass of int
IsInt(x) == x.k \in {"pyint", "pybool"}
IntOf(x) == IF x.k = "pybool" THEN (IF x.v THEN 1 ELSE 0) ELSE x.v
\* isinstance(x, Sequence)
IsSequence(x) == x.k \in {"pylist", "pytuple", "pystr"}
\* isinstance(x, Mapping)
IsMapping(x) == x.k \in {"pydict", "Struct"}

\* the names a Mapping has, in order
Keys(x) ==
    IF x.k = "Struct" THEN [i \in 1..Len(x.v.fields) |-> Key(x.v.fields[i])]
    ELSE [i \in 1..Len(x.v) |-> x.v[i][1]]

\* the values a Mapping has, in the same order
Values(x) ==
    IF x.k = "Struct" THEN x.v.vals ELSE [i \in 1..Len(x.v) |-> x.v[i][2]]

\* list(x), what `for elt in x` meets
Iter(x) ==
    CASE x.k \in {"pylist", "pytuple"} -> PyList(x.v)
      [] x.k = "pystr" -> PyList([i \in 1..Len(x.toks) |-> PyStr(<<x.toks[i]>>)])
      [] x.k = "pyset" -> PyList(SetToSeq(x.v))
      [] IsMapping(x) -> PyList(Keys(x))
      [] OTHER -> Raise("TypeError")

\* list(x.items()), its elements being <<key, value>>
Items(x) ==
    IF IsMapping(x)
    THEN PyList([i \in 1..Len(Keys(x)) |-> <<Keys(x)[i], Values(x)[i]>>])
    ELSE Raise("AttributeError")

\* x.get(f) with a field name f
Get(x, f) ==
    IF ~IsMapping(x) THEN Raise("AttributeError")
    ELSE IF \E i \in 1..Len(Keys(x)) : Keys(x)[i] = Key(f)
    THEN Values(x)[CHOOSE i \in 1..Len(Keys(x)) : Keys(x)[i] = Key(f)]
    ELSE PyNone

\* x[f] with a field name f
GetItem(x, f) ==
    IF IsMapping(x)
    THEN IF \E i \in 1..Len(Keys(x)) : Keys(x)[i] = Key(f)
         THEN Values(x)[CHOOSE i \in 1..Len(Keys(x)) : Keys(x)[i] = Key(f)]
         ELSE Raise("KeyError")
    ELSE Raise("TypeError")

\* x[i] with the Python index i, counted from 0
Index(x, i) ==
    CASE x.k \in {"pylist", "pytuple"} ->
            IF i < Len(x.v) THEN x.v[i + 1] ELSE Raise("IndexError")
      [] x.k = "pystr" ->
            IF i < Len(x.toks) THEN PyStr(<<x.toks[i + 1]>>) ELSE Raise("IndexError")
      [] IsMapping(x) ->
            IF \E j \in 1..Len(Keys(x)) : Keys(x)[j] = PyInt(i)
            THEN Values(x)[CHOOSE j \in 1..Len(Keys(x)) : Keys(x)[j] = PyInt(i)]
            ELSE Raise("KeyError")
      [] OTHER -> Raise("TypeError")

\* math.isfinite(x)
isfinite(x) ==
    CASE IsInt(x) -> PyBool(TRUE)
      [] x.k = "pyfloat" -> PyBool(x.v.cls = "finite")
      [] OTHER -> Raise("TypeError")

\* float(x)
float(x) ==
    CASE IsInt(x) -> PyFloat("finite", IntOf(x))
      [] x.k = "pyfloat" -> x
      [] x.k = "pystr" ->
            IF Name(x) \in {"nan", "inf", "-inf"} THEN PyFloat(Name(x), 0)
            ELSE Raise("ValueError")
      [] OTHER -> Raise("TypeError")

\* str(x) of a float that is not finite
FloatStr(x) == PyStr(<<x.v.cls>>)
(***************************************************************************)
(* typecheck: _typecheck_one_level raises TypeError or returns None, and   *)
(* _traverse visits the children after check(t, obj), which is always True *)
(***************************************************************************)
min_value == -2147483647 - 1
max_value == 2147483647

\* _tint32._typecheck_one_level, _tint64._typecheck_one_level
IntTypecheckOneLevel(self, annotation) ==
    IF annotation # PyNone
    THEN IF ~IsInt(annotation) THEN Raise("TypeError")
         ELSE IF ~(min_value <= IntOf(annotation) /\ IntOf(annotation) <= max_value)
         THEN Raise("TypeError")
         ELSE PyNone
    ELSE PyNone

\* _tfloat32._typecheck_one_level, _tfloat64._typecheck_one_level
FloatTypecheckOneLevel(self, annotation) ==
    IF annotation # PyNone /\ ~(annotation.k = "pyfloat" \/ IsInt(annotation))
    THEN Raise("TypeError") ELSE PyNone

\* _tstr._typecheck_one_level
StrTypecheckOneLevel(self, annotation) ==
    IF Truthy(annotation) /\ annotation.k # "pystr" THEN Raise("TypeError") ELSE PyNone

\* _tbool._typecheck_one_level
BoolTypecheckOneLevel(self, annotation) ==
    IF annotation # PyNone /\ annotation.k # "pybool" THEN Raise("TypeError") ELSE PyNone

\* tarray._typecheck_one_level
ArrayTypecheckOneLevel(self, annotation) ==
    IF annotation # PyNone /\ ~IsSequence(annotation) THEN Raise("TypeError") ELSE PyNone

\* tset._typecheck_one_level
SetTypecheckOneLevel(self, annotation) ==
    IF annotation # PyNone /\ annotation.k # "pyset" THEN Raise("TypeError") ELSE PyNone

\* tdict._typecheck_one_level
DictTypecheckOneLevel(self, annotation) ==
    IF annotation # PyNone /\ annotation.k # "pydict" THEN Raise("TypeError") ELSE PyNone

\* tstruct._typecheck_one_level
StructTypecheckOneLevel(self, annotation) ==
    IF Truthy(annotation)
    THEN IF IsMapping(annotation)
         THEN IF \E i \in 1..Len(Keys(annotation)) :
                    \A j \in 1..Len(self.fields) : Name(Keys(annotation)[i]) # self.fields[j]
              THEN Raise("TypeError")
              ELSE PyNone
         ELSE Raise("TypeError")
    ELSE PyNone

\* ttuple._typecheck_one_level
TupleTypecheckOneLevel(self, annotation) ==
    IF Truthy(annotation)
    THEN IF annotation.k # "pytuple" THEN Raise("TypeError")
         ELSE IF Len(annotation.v) # Len(self.types) THEN Raise("TypeError")
         ELSE PyNone
    ELSE PyNone

\* tlocus._typecheck_one_level
LocusTypecheckOneLevel(self, annotation) ==
    IF annotation # PyNone
    THEN IF annotation.k # "Locus" THEN Raise("TypeError")
         ELSE IF ~(self.rg = annotation.v.reference_genome) THEN Raise("TypeError")
         ELSE PyNone
    ELSE PyNone

\* tinterval._typecheck_one_level
IntervalTypecheckOneLevel(self, annotation) ==
    IF annotation # PyNone
    THEN IF annotation.k # "Interval" THEN Raise("TypeError")
         ELSE IF ~TypeEq(annotation.v.point_type, self.elem) THEN Raise("TypeError")
         ELSE PyNone
    ELSE PyNone

\* t._typecheck_one_level(annotation); _tvoid inherits the empty method
TypecheckOneLevel(self, annotation) ==
    CASE self.k \in {"int32", "int64"} -> IntTypecheckOneLevel(self, annotation)
      [] self.k \in {"float32", "float64"} -> FloatTypecheckOneLevel(self, annotation)
      [] self.k = "str" -> StrTypecheckOneLevel(self, annotation)
      [] self.k = "bool" -> BoolTypecheckOneLevel(self, annotation)
      [] self.k = "array" -> ArrayTypecheckOneLevel(self, annotation)
      [] self.k = "set" -> SetTypecheckOneLevel(self, annotation)
      [] self.k = "dict" -> DictTypecheckOneLevel(self, annotation)
      [] self.k = "struct" -> StructTypecheckOneLevel(self, annotation)
      [] self.k = "tuple" -> TupleTypecheckOneLevel(self, annotation)
      [] self.k = "locus" -> LocusTypecheckOneLevel(self, annotation)
      [] self.k = "interval" -> IntervalTypecheckOneLevel(self, annotation)
      [] self.k = "void" -> PyNone

\* the function check of HailType.typecheck, which returns True or raises
check(t, obj) ==
    LET r == TypecheckOneLevel(t, obj) IN IF IsRaise(r) THEN r ELSE PyBool(TRUE)

\* tstruct.__getitem__
StructGetItem(self, item) ==
    IF item.k = "pystr"
    THEN IF \E j \in 1..Len(self.fields) : self.fields[j] = Name(item)
         THEN self.types[CHOOSE j \in 1..Len(self.fields) : self.fields[j] = Name(item)]
         ELSE Raise("KeyError")
    ELSE IF IsInt(item)
    THEN LET n == Len(self.fields)
             i == IntOf(item)
         IN  IF -n <= i /\ i < n
             THEN self.types[IF i >= 0 THEN i + 1 ELSE n + i + 1]
             ELSE Raise("IndexError")
    ELSE Raise("TypeError")
RECURSIVE Traverse(_, _), TraverseAll(_, _)

\* HailType._traverse, for the types without children
LeafTraverse(self, obj) == LET r == check(self, obj) IN IF IsRaise(r) THEN r ELSE PyNone

\* tarray._traverse, tset._traverse
ElemTraverse(self, obj) ==
    LET r == check(self, obj)
        elts == Iter(obj)
    IN  IF IsRaise(r) THEN r
        ELSE IF IsRaise(elts) THEN elts
        ELSE TraverseAll([i \in 1..Len(elts.v) |-> self.elem], elts.v)

\* tdict._traverse
DictTraverse(self, obj) ==
    LET r == check(self, obj)
        its == Items(obj)
        kvs == its.v
    IN  IF IsRaise(r) THEN r
        ELSE IF IsRaise(its) THEN its
        ELSE TraverseAll([i \in 1..(2 * Len(kvs)) |->
                              IF i % 2 = 1 THEN self.key ELSE self.value],
                         [i \in 1..(2 * Len(kvs)) |-> kvs[(i + 1) \div 2][2 - (i % 2)]])

\* tstruct._traverse
StructTraverse(self, obj) ==
    LET r == check(self, obj)
        its == Items(obj)
        kvs == its.v
        ts == [i \in 1..Len(kvs) |-> StructGetItem(self, kvs[i][1])]
        first == CHOOSE i \in 1..Len(kvs) :
                    IsRaise(ts[i]) /\ \A j \in 1..(i - 1) : ~IsRaise(ts[j])
    IN  IF IsRaise(r) THEN r
        ELSE IF IsRaise(its) THEN its
        ELSE IF \E i \in 1..Len(kvs) : IsRaise(ts[i])
        THEN LET done == TraverseAll(SubSeq(ts, 1, first - 1),
                                     [i \in 1..(first - 1) |-> kvs[i][2]])
             IN  IF IsRaise(done) THEN done ELSE ts[first]
        ELSE TraverseAll(ts, [i \in 1..Len(kvs) |-> kvs[i][2]])

\* ttuple._traverse: zip stops at the shorter of self.types and obj
TupleTraverse(self, obj) ==
    LET r == check(self, obj)
        elts == Iter(obj)
        n == IF Len(elts.v) < Len(self.types) THEN Len(elts.v) ELSE Len(self.types)
    IN  IF IsRaise(r) THEN r
        ELSE IF IsRaise(elts) THEN elts
        ELSE TraverseAll(SubSeq(self.types, 1, n), SubSeq(elts.v, 1, n))

\* tinterval._traverse
IntervalTraverse(self, obj) ==
    LET r == check(self, obj)
    IN  IF IsRaise(r) THEN r
        ELSE IF obj.k # "Interval" THEN Raise("AttributeError")
        ELSE TraverseAll(<<self.elem, self.elem>>, <<obj.v.start, obj.v.end>>)

\* t._traverse(obj, check): None, or the first exception
Traverse(self, obj) ==
    CASE self.k \in {"array", "set"} -> ElemTraverse(self, obj)
      [] self.k = "dict" -> DictTraverse(self, obj)
      [] self.k = "struct" -> StructTraverse(self, obj)
      [] self.k = "tuple" -> TupleTraverse(self, obj)
      [] self.k = "interval" -> IntervalTraverse(self, obj)
      [] OTHER -> LeafTraverse(self, obj)

\* ts[i]._traverse(xs[i], check) for each i in turn
TraverseAll(ts, xs) ==
    FirstRaise([i \in 1..Len(ts) |-> Traverse(ts[i], xs[i])])

\* HailType.typecheck
typecheck(self, value) == Traverse(self, value)
(***************************************************************************)
(* JSON codec: _convert_to_json[_na] and _convert_from_json[_na]; each     *)
(* returns the converted value or the exception it raises                  *)
(***************************************************************************)
RECURSIVE Hashable(_)
\* hash(x) does not raise
Hashable(x) ==
    CASE x.k \in {"pylist", "pyset", "pydict"} -> FALSE
      [] x.k = "pytuple" -> \A i \in 1..Len(x.v) : Hashable(x.v[i])
      [] OTHER -> TRUE

\* the results rs as one value made by mk, or the first exception among them
Collect(rs, mk(_)) == IF IsRaise(FirstRaise(rs)) THEN FirstRaise(rs) ELSE mk(rs)

\* a set display of the elements rs
MkSet(rs) ==
    IF \E i \in 1..Len(rs) : ~Hashable(rs[i]) THEN Raise("TypeError")
    ELSE PySet({rs[i] : i \in 1..Len(rs)})

RECURSIVE DictOf(_)
\* a dict display of the pairs kvs: a later pair replaces the value of an
\* equal earlier key
DictOf(kvs) ==
    IF kvs = << >> THEN << >>
    ELSE LET n == Len(kvs)
             front == DictOf(SubSeq(kvs, 1, n - 1))
         IN  IF \E i \in 1..Len(front) : front[i][1] = kvs[n][1]
             THEN [i \in 1..Len(front) |->
                      IF front[i][1] = kvs[n][1] THEN kvs[n] ELSE front[i]]
             ELSE Append(front, kvs[n])

MkDict(kvs) ==
    IF \E i \in 1..Len(kvs) : ~Hashable(kvs[i][1]) THEN Raise("TypeError")
    ELSE PyDict(DictOf(kvs))

RECURSIVE convert_to_json(_, _), convert_from_json(_, _)

\* HailType._convert_to_json_na
convert_to_json_na(self, x) == IF x = PyNone THEN x ELSE convert_to_json(self, x)

\* HailType._convert_from_json_na
convert_from_json_na(self, x) == IF x = PyNone THEN x ELSE convert_from_json(self, x)

\* _tfloat32._convert_to_json, _tfloat64._convert_to_json
FloatToJson(self, x) ==
    LET fin == isfinite(x)
    IN  IF IsRaise(fin) THEN fin ELSE IF fin.v THEN x ELSE FloatStr(x)

\* _tfloat32._convert_from_json, _tfloat64._convert_from_json
FloatFromJson(self, x) == float(x)

\* tarray._convert_to_json, tset._convert_to_json
ElemToJson(self, x) ==
    LET elts == Iter(x)
    IN  IF IsRaise(elts) THEN elts
        ELSE Collect([i \in 1..Len(elts.v) |-> convert_to_json_na(self.elem, elts.v[i])], PyList)

\* tarray._convert_from_json
ArrayFromJson(self, x) ==
    LET elts == Iter(x)
    IN  IF IsRaise(elts) THEN elts
        ELSE Collect([i \in 1..Len(elts.v) |-> convert_from_json_na(self.elem, elts.v[i])], PyList)

\* tset._convert_from_json
SetFromJson(self, x) ==
    LET elts == Iter(x)
    IN  IF IsRaise(elts) THEN elts
        ELSE Collect([i \in 1..Len(elts.v) |-> convert_from_json_na(self.elem, elts.v[i])], MkSet)

\* the {'key': ..., 'value': ...} of one entry
KeyValue(kv) ==
    IF IsRaise(kv[1]) THEN kv[1] ELSE IF IsRaise(kv[2]) THEN kv[2]
    ELSE PyDict(<< <<Key("key"), kv[1]>>, <<Key("value"), kv[2]>> >>)

\* tdict._convert_to_json
DictToJson(self, x) ==
    LET its == Items(x)
        kvs == its.v
    IN  IF IsRaise(its) THEN its
        ELSE Collect([i \in 1..Len(kvs) |->
                         KeyValue(<<convert_to_json(self.key, kvs[i][1]),
                                    convert_to_json(self.value, kvs[i][2])>>)], PyList)

\* the key and the value of one decoded entry, or the first exception
EntryFromJson(self, elt) ==
    LET jk == GetItem(elt, "key")
        jv == GetItem(elt, "value")
        dk == convert_from_json_na(self.key, jk)
        dv == convert_from_json_na(self.value, jv)
    IN  IF IsRaise(jk) THEN jk ELSE IF IsRaise(dk) THEN dk
        ELSE IF IsRaise(jv) THEN jv ELSE IF IsRaise(dv) THEN dv
        ELSE PyTuple(<<dk, dv>>)

\* tdict._convert_from_json
DictFromJson(self, x) ==
    LET elts == Iter(x)
        es == [i \in 1..Len(elts.v) |-> EntryFromJson(self, elts.v[i])]
    IN  IF IsRaise(elts) THEN elts
        ELSE IF IsRaise(FirstRaise(es)) THEN FirstRaise(es)
        ELSE MkDict([i \in 1..Len(es) |-> es[i].v])
\* tstruct._convert_from_json
StructFromJson(self, x) ==
    LET gs == [i \in 1..Len(self.fields) |-> Get(x, self.fields[i])]
        vs == [i \in 1..Len(self.fields) |->
                  IF IsRaise(gs[i]) THEN gs[i] ELSE convert_from_json_na(self.types[i], gs[i])]
    IN  IF IsRaise(FirstRaise(vs)) THEN FirstRaise(vs) ELSE Struct(self.fields, vs)

\* tstruct._convert_to_json
StructToJson(self, x) ==
    LET gs == [i \in 1..Len(self.fields) |-> GetItem(x, self.fields[i])]
        vs == [i \in 1..Len(self.fields) |->
                  IF IsRaise(gs[i]) THEN gs[i] ELSE convert_to_json_na(self.types[i], gs[i])]
    IN  IF IsRaise(FirstRaise(vs)) THEN FirstRaise(vs)
        ELSE PyDict([i \in 1..Len(self.fields) |-> <<Key(self.fields[i]), vs[i]>>])

\* ttuple._convert_from_json
TupleFromJson(self, x) ==
    LET gs == [i \in 1..Len(self.types) |-> Index(x, i - 1)]
    IN  Collect([i \in 1..Len(self.types) |->
                    IF IsRaise(gs[i]) THEN gs[i] ELSE convert_from_json_na(self.types[i], gs[i])],
                PyTuple)

\* ttuple._convert_to_json
TupleToJson(self, x) ==
    LET gs == [i \in 1..Len(self.types) |-> Index(x, i - 1)]
    IN  Collect([i \in 1..Len(self.types) |->
                    IF IsRaise(gs[i]) THEN gs[i] ELSE convert_to_json_na(self.types[i], gs[i])],
                PyList)

\* hail.utils.Interval(start, end, includes_start, includes_end)
MkInterval(point_type, args) == Interval(args[1], args[2], args[3], args[4], point_type)

\* tinterval._convert_from_json
IntervalFromJson(self, x) ==
    LET gs == <<GetItem(x, "start"), GetItem(x, "end"),
                GetItem(x, "includeStart"), GetItem(x, "includeEnd")>>
        mk(args) == MkInterval(self.elem, args)
    IN  Collect(<<IF IsRaise(gs[1]) THEN gs[1] ELSE convert_from_json_na(self.elem, gs[1]),
                  IF IsRaise(gs[2]) THEN gs[2] ELSE convert_from_json_na(self.elem, gs[2]),
                  gs[3], gs[4]>>, mk)

\* tinterval._convert_to_json
IntervalToJson(self, x) ==
    IF x.k # "Interval" THEN Raise("AttributeError")
    ELSE LET s == convert_to_json_na(self.elem, x.v.start)
             e == convert_to_json_na(self.elem, x.v.end)
         IN  IF IsRaise(s) THEN s ELSE IF IsRaise(e) THEN e
             ELSE PyDict(<< <<Key("start"), s>>, <<Key("end"), e>>,
                            <<Key("includeStart"), x.v.includes_start>>,
                            <<Key("includeEnd"), x.v.includes_end>> >>)

\* tlocus._convert_from_json
LocusFromJson(self, x) ==
    LET c == GetItem(x, "contig")
        p == GetItem(x, "position")
    IN  IF IsRaise(c) THEN c ELSE IF IsRaise(p) THEN p ELSE Locus(c, p, self.rg)

\* tlocus._convert_to_json
LocusToJson(self, x) ==
    IF x.k # "Locus" THEN Raise("AttributeError")
    ELSE PyDict(<< <<Key("contig"), x.v.contig>>, <<Key("position"), x.v.position>> >>)

\* t._convert_to_json(x); HailType._convert_to_json returns x
convert_to_json(self, x) ==
    CASE self.k \in {"float32", "float64"} -> FloatToJson(self, x)
      [] self.k \in {"array", "set"} -> ElemToJson(self, x)
      [] self.k = "dict" -> DictToJson(self, x)
      [] self.k = "struct" -> StructToJson(self, x)
      [] self.k = "tuple" -> TupleToJson(self, x)
      [] self.k = "interval" -> IntervalToJson(self, x)
      [] self.k = "locus" -> LocusToJson(self, x)
      [] OTHER -> x

\* t._convert_from_json(x); HailType._convert_from_json returns x
convert_from_json(self, x) ==
    CASE self.k \in {"float32", "float64"} -> FloatFromJson(self, x)
      [] self.k = "array" -> ArrayFromJson(self, x)
      [] self.k = "set" -> SetFromJson(self, x)
      [] self.k = "dict" -> DictFromJson(self, x)
      [] self.k = "struct" -> StructFromJson(self, x)
      [] self.k = "tuple" -> TupleFromJson(self, x)
      [] self.k = "interval" -> IntervalFromJson(self, x)
      [] self.k = "locus" -> LocusFromJson(self, x)
      [] OTHER -> x
(***************************************************************************)
(* Checking, encoding and decoding values: objs[i].typecheck(value),       *)
(* objs[i]._convert_to_json_na(x) and objs[i]._convert_from_json_na(x)     *)
(***************************************************************************)
\* the types values are checked and converted at
CodecTypes ==
    {tint32, tfloat64, tstr, tbool, tarray(tint32), tarray(tfloat64), tset(tint32),
     tdict(tstr, tint32), tdict(tstr, tarray(tint32)), tdict(tstr, tfloat64),
     tstruct(<<"a", "b">>, <<tint32, tstr>>), tstruct(<<"a">>, <<tarray(tint32)>>),
     ttuple(<<tint32, tstr>>), tinterval(tint32), tlocus("GRCh37"),
     tarray(tstruct(<<"a", "b">>, <<tint32, tstr>>))}

one == PyInt(1)
x_ == PyStr(<<"x">>)

\* values of every Python kind, conforming and not
PyValues ==
    {PyNone, PyInt(0), one, PyBool(TRUE), PyFloat("finite", 1), PyFloat("nan", 0),
     PyFloat("inf", 0), PyFloat("-inf", 0), PyStr(<< >>), x_,
     PyList(<< >>), PyList(<<one>>), PyList(<<one, PyNone>>), PyList(<<one, x_>>),
     PyList(<<PyFloat("nan", 0), PyFloat("finite", 1)>>), PyList(<<PyNone>>),
     PyTuple(<< >>), PyTuple(<<one, x_>>), PyTuple(<<one>>), PyTuple(<<one, x_, one>>),
     PyTuple(<<PyNone, PyNone>>),
     PySet({}), PySet({one}), PySet({one, PyNone}),
     PyDict(<< >>), PyDict(<< <<x_, one>> >>), PyDict(<< <<x_, PyNone>> >>),
     PyDict(<< <<PyNone, one>> >>), PyDict(<< <<x_, PyList(<<one>>)>> >>),
     Struct(<< >>, << >>), Struct(<<"a", "b">>, <<one, x_>>), Struct(<<"a">>, <<one>>),
     Struct(<<"a", "b">>, <<PyNone, PyNone>>), Struct(<<"a", "c">>, <<one, one>>),
     Struct(<<"a">>, <<PyNone>>), Struct(<<"a">>, <<PyList(<<one>>)>>),
     Interval(one, one, PyBool(TRUE), PyBool(FALSE), tint32),
     Interval(PyNone, one, PyBool(TRUE), PyBool(FALSE), tint32),
     Interval(x_, x_, PyBool(TRUE), PyBool(FALSE), tstr),
     Locus(x_, one, "GRCh37"), Locus(x_, one, "GRCh38")}

\* what json.loads can hand to a decoder, well shaped and not
JsonValues ==
    {PyNone, one, PyFloat("finite", 1), x_, PyStr(<<"nan">>), PyStr(<<"-inf">>), PyBool(TRUE),
     PyList(<< >>), PyList(<<one, PyNone>>), PyList(<<PyStr(<<"inf">>)>>),
     PyList(<<one, x_>>), PyList(<<one>>), PyList(<<one, x_, one>>), PyList(<<PyNone, PyNone>>),
     PyDict(<< <<Key("a"), one>>, <<Key("b"), x_>> >>), PyDict(<< <<Key("a"), one>> >>),
     PyDict(<< <<Key("a"), PyNone>>, <<Key("b"), PyNone>> >>), PyDict(<< >>),
     PyDict(<< <<Key("a"), PyList(<<one>>)>> >>),
     PyList(<<PyDict(<< <<Key("key"), x_>>, <<Key("value"), one>> >>)>>),
     PyList(<<PyDict(<< <<Key("key"), x_>>, <<Key("value"), PyNone>> >>)>>),
     PyList(<<PyDict(<< <<Key("key"), PyNone>>, <<Key("value"), one>> >>)>>),
     PyList(<<PyDict(<< <<Key("key"), x_>> >>)>>),
     PyList(<<PyDict(<< <<Key("value"), one>> >>)>>),
     PyList(<<PyDict(<< <<Key("a"), one>>, <<Key("b"), x_>> >>), PyDict(<< <<Key("b"), x_>> >>)>>),
     PyDict(<< <<Key("start"), one>>, <<Key("end"), one>>,
               <<Key("includeStart"), PyBool(TRUE)>>, <<Key("includeEnd"), PyBool(FALSE)>> >>),
     PyDict(<< <<Key("start"), PyNone>>, <<Key("end"), PyNone>>,
               <<Key("includeStart"), PyBool(TRUE)>>, <<Key("includeEnd"), PyBool(FALSE)>> >>),
     PyDict(<< <<Key("start"), one>>,
               <<Key("includeStart"), PyBool(TRUE)>>, <<Key("includeEnd"), PyBool(FALSE)>> >>),
     PyDict(<< <<Key("start"), one>>, <<Key("end"), one>>, <<Key("includeStart"), PyBool(TRUE)>> >>),
     PyDict(<< <<Key("contig"), x_>>, <<Key("position"), one>> >>),
     PyDict(<< <<Key("contig"), x_>> >>), PyDict(<< <<Key("position"), one>> >>)}

\* objs[i].typecheck(value)
TypecheckCall(i, value) ==
    /\ objs[i] # NoObj
    /\ ret' = typecheck(objs[i], value)
    /\ Called("typecheck", i, value)
    /\ UNCHANGED <<named_boxes, box_value, objs, context, threads>>

\* objs[i]._convert_to_json_na(x)
ConvertToJsonCall(i, x) ==
    /\ objs[i] # NoObj
    /\ ret' = convert_to_json_na(objs[i], x)
    /\ Called("to_json", i, x)
    /\ UNCHANGED <<named_boxes, box_value, objs, context, threads>>

\* objs[i]._convert_from_json_na(x)
ConvertFromJsonCall(i, x) ==
    /\ objs[i] # NoObj
    /\ ret' = convert_from_json_na(objs[i], x)
    /\ Called("from_json", i, x)
    /\ UNCHANGED <<named_boxes, box_value, objs, context, threads>>

NextCodec ==
    \/ \E e \in CodecTypes : New(1, e)
    \/ \E v \in PyValues : TypecheckCall(1, v)
    \/ \E v \in PyValues : ConvertToJsonCall(1, v)
    \/ \E x \in JsonValues : ConvertFromJsonCall(1, x)

SpecCodec == Init /\ [][NextCodec]_vars

(***************************************************************************)
(* Properties of the codec and of typecheck                                *)
(***************************************************************************)
IsNum(x) == x.k \in {"pyint", "pybool", "pyfloat"}
NumCls(x) == IF x.k = "pyfloat" THEN x.v.cls ELSE "finite"
NumOf(x) == IF x.k = "pyfloat" THEN x.v.n ELSE IntOf(x)

RECURSIVE PyEq(_, _)
\* a == b in Python: numbers by value and nan equal to nothing, containers
\* by kind and content, dicts and Structs whatever the order of their keys
PyEq(a, b) ==
    CASE IsNum(a) /\ IsNum(b) ->
            /\ NumCls(a) = NumCls(b)
            /\ NumCls(a) # "nan"
            /\ NumCls(a) = "finite" => NumOf(a) = NumOf(b)
      [] a.k = "pynone" -> b.k = "pynone"
      [] a.k = "pystr" -> b.k = "pystr" /\ a.toks = b.toks
      [] a.k \in {"pylist", "pytuple"} ->
            /\ b.k = a.k
            /\ Len(a.v) = Len(b.v)
            /\ \A i \in 1..Len(a.v) : PyEq(a.v[i], b.v[i])
      [] a.k = "pyset" ->
            /\ b.k = "pyset"
            /\ \A x \in a.v : \E y \in b.v : PyEq(x, y)
            /\ \A y \in b.v : \E x \in a.v : PyEq(x, y)
      [] IsMapping(a) ->
            /\ b.k = a.k
            /\ Len(Keys(a)) = Len(Keys(b))
            /\ \A i \in 1..Len(Keys(a)) : \E j \in 1..Len(Keys(b)) :
                    PyEq(Keys(a)[i], Keys(b)[j]) /\ PyEq(Values(a)[i], Values(b)[j])
      [] a.k = "Interval" ->
            /\ b.k = "Interval"
            /\ PyEq(a.v.start, b.v.start) /\ PyEq(a.v.end, b.v.end)
            /\ a.v.includes_start = b.v.includes_start
            /\ a.v.includes_end = b.v.includes_end
      [] a.k = "Locus" -> b.k = "Locus" /\ a.v = b.v
      [] OTHER -> FALSE

\* typecheck(t, v) succeeds
Conforms(t, v) == typecheck(t, v) = PyNone

(***************************************************************************)
\* C12: for every t and v such that typecheck(t, v) succeeds, encoding
\* succeeds and decode(t, encode(t, v)) == v; this includes v = null, a
\* struct value that omits declared fields, and NaN, +Inf and -Inf.
C12_RoundTrip ==
    (call.op = "to_json" /\ Conforms(Recv, call.arg)) =>
        ~IsRaise(ret) /\ PyEq(convert_from_json_na(Recv, ret), call.arg)

\* v has the Python kind and the shape of a value of the composite type t
Shaped(t, v) ==
    CASE t.k = "array" -> v.k = "pylist"
      [] t.k = "set" -> v.k = "pyset"
      [] t.k = "dict" -> v.k = "pydict"
      [] t.k = "struct" -> v.k = "Struct" /\ v.v.fields = t.fields
      [] t.k = "tuple" -> v.k = "pytuple" /\ Len(v.v) = Len(t.types)
      [] t.k = "interval" -> v.k = "Interval"
      [] OTHER -> FALSE

\* the type of the i-th child of a value of the composite type t
ChildType(t, i) ==
    CASE t.k \in {"array", "set", "interval"} -> t.elem
      [] t.k = "dict" -> IF i % 2 = 1 THEN t.key ELSE t.value
      [] t.k \in {"struct", "tuple"} -> t.types[i]

\* the children of such a value in the order _convert_to_json meets them
Children(t, v) ==
    CASE t.k \in {"array", "tuple"} -> v.v
      [] t.k = "set" -> SetToSeq(v.v)
      [] t.k = "dict" ->
            [i \in 1..(2 * Len(v.v)) |-> v.v[(i + 1) \div 2][2 - (i % 2)]]
      [] t.k = "struct" -> v.v.vals
      [] t.k = "interval" -> <<v.v.start, v.v.end>>

\* the same positions in the JSON j that encodes such a value
JsonChildren(t, j) ==
    CASE t.k \in {"array", "set", "tuple"} -> j.v
      [] t.k = "dict" ->
            [i \in 1..(2 * Len(j.v)) |->
                IF i % 2 = 1 THEN GetItem(j.v[(i + 1) \div 2], "key")
                ELSE GetItem(j.v[i \div 2], "value")]
      [] t.k = "struct" -> [i \in 1..Len(t.fields) |-> GetItem(j, t.fields[i])]
      [] t.k = "interval" -> <<GetItem(j, "start"), GetItem(j, "end")>>

\* j has the JSON shape of the composite type t
JsonShaped(t, j) ==
    CASE t.k \in {"array", "set"} -> j.k = "pylist"
      [] t.k = "tuple" -> j.k = "pylist" /\ Len(j.v) = Len(t.types)
      [] t.k = "dict" ->
            /\ j.k = "pylist"
            /\ \A i \in 1..Len(j.v) :
                    j.v[i].k = "pydict" /\ Keys(j.v[i]) = <<Key("key"), Key("value")>>
            /\ \A i, i2 \in 1..Len(j.v) :
                    i # i2 => GetItem(j.v[i], "key") # GetItem(j.v[i2], "key")
      [] t.k = "struct" ->
            j.k = "pydict" /\ \A i \in 1..Len(t.fields) : ~IsRaise(GetItem(j, t.fields[i]))
      [] t.k = "interval" ->
            /\ j.k = "pydict"
            /\ \A f \in {"start", "end", "includeStart", "includeEnd"} : ~IsRaise(GetItem(j, f))
      [] OTHER -> FALSE

(***************************************************************************)
\* C13: encode and decode pass null through unchanged at every position
\* (array element, set element, dict key, dict value, struct field, tuple
\* element, interval endpoint): a null child is encoded as null and a JSON
\* null child is decoded as null, whatever the child type's own conversion
\* would do with it, as long as the other children convert (to something
\* hashable where they become the element of a set or the key of a dict).
C13_NullPassThrough ==
    LET t == Recv
        x == call.arg
    IN  /\ (call.op = "to_json" /\ Shaped(t, x)
              /\ \A i \in 1..Len(Children(t, x)) :
                    Children(t, x)[i] # PyNone
                        => ~IsRaise(convert_to_json(ChildType(t, i), Children(t, x)[i])))
             => /\ ~IsRaise(ret)
                /\ \A i \in 1..Len(Children(t, x)) :
                      Children(t, x)[i] = PyNone => JsonChildren(t, ret)[i] = PyNone
        /\ (call.op = "from_json" /\ JsonShaped(t, x)
              /\ \A i \in 1..Len(JsonChildren(t, x)) :
                    JsonChildren(t, x)[i] # PyNone
                        => LET c == convert_from_json(ChildType(t, i), JsonChildren(t, x)[i])
                           IN  /\ ~IsRaise(c)
                               /\ (t.k = "set" \/ (t.k = "dict" /\ i % 2 = 1)) => Hashable(c))
             => /\ ~IsRaise(ret)
                /\ \A i \in 1..Len(JsonChildren(t, x)) :
                      JsonChildren(t, x)[i] = PyNone
                          => IF t.k = "set" THEN PyNone \in ret.v
                             ELSE Children(t, ret)[i] = PyNone

\* the JSON x is of the right kind for t but lacks a key, or has the wrong
\* number of elements
Mismatched(t, x) ==
    CASE t.k = "struct" ->
            x.k = "pydict" /\ \E i \in 1..Len(t.fields) : IsRaise(GetItem(x, t.fields[i]))
      [] t.k = "tuple" -> x.k = "pylist" /\ Len(x.v) # Len(t.types)
      [] t.k = "dict" ->
            /\ x.k = "pylist"
            /\ \E i \in 1..Len(x.v) :
                    /\ x.v[i].k = "pydict"
                    /\ \E f \in {"key", "value"} : IsRaise(GetItem(x.v[i], f))
      [] t.k = "interval" ->
            /\ x.k = "pydict"
            /\ \E f \in {"start", "end", "includeStart", "includeEnd"} : IsRaise(GetItem(x, f))
      [] t.k = "locus" ->
            x.k = "pydict" /\ \E f \in {"contig", "position"} : IsRaise(GetItem(x, f))
      [] OTHER -> FALSE

(***************************************************************************)
\* C14: decode fails with an error whenever the JSON shape does not match
\* the type: a struct object missing a declared key, a tuple array shorter
\* or longer than the arity, a dict element lacking 'key' or 'value', an
\* interval or locus object missing a key; it never returns a value then.
C14_DecodeRejectsMismatch ==
    (call.op = "from_json" /\ Mismatched(Recv, call.arg)) => IsRaise(ret)

(***************************************************************************)
\* C15: typecheck(t, null) succeeds silently for every type, and nested
\* nulls are accepted: typecheck never raises on a null.
C15_NullAccepted ==
    call.op = "typecheck" =>
        /\ call.arg = PyNone => ret = PyNone
        /\ (Shaped(Recv, call.arg)
              /\ \A i \in 1..Len(Children(Recv, call.arg)) :
                    \/ Children(Recv, call.arg)[i] = PyNone
                    \/ Conforms(ChildType(Recv, i), Children(Recv, call.arg)[i]))
             => ret = PyNone

\* the declared type of each key of the mapping x, the value under each key
FieldTypes(t, x) == [i \in 1..Len(Keys(x)) |-> StructGetItem(t, Keys(x)[i])]

(***************************************************************************)
\* C16: typecheck of a struct type against a non-null value fails with a
\* type-mismatch error if the value is not a mapping or contains an
\* undeclared field name, and otherwise (a subset of the declared fields)
\* checks each present field against its declared type.
C16_StructTypecheck ==
    (call.op = "typecheck" /\ Recv.k = "struct" /\ call.arg # PyNone) =>
        IF ~IsMapping(call.arg)
              \/ \E i \in 1..Len(Keys(call.arg)) : Name(Keys(call.arg)[i]) \notin
                    {Recv.fields[j] : j \in 1..Len(Recv.fields)}
        THEN ret = Raise("TypeError")
        ELSE ret = FirstRaise([i \in 1..Len(Keys(call.arg)) |->
                        typecheck(FieldTypes(Recv, call.arg)[i], Values(call.arg)[i])])

(***************************************************************************)
\* C17: typecheck of a tuple type against a non-null value fails with a
\* type-mismatch error whenever the value is not a tuple or its length
\* differs from the arity, the empty tuple against arity >= 1 included;
\* when the arity matches, element i is checked against type i.
C17_TupleTypecheck ==
    (call.op = "typecheck" /\ Recv.k = "tuple" /\ call.arg # PyNone) =>
        IF call.arg.k # "pytuple" \/ Len(call.arg.v) # Len(Recv.types)
        THEN ret = Raise("TypeError")
        ELSE ret = FirstRaise([i \in 1..Len(Recv.types) |->
                        typecheck(Recv.types[i], call.arg.v[i])])

(***************************************************************************)
(* Struct transformations.  Each returns the receiver as the call leaves   *)
(* it, what the call returns, and whether that is the receiver itself.     *)
(***************************************************************************)
\* a reference to the node in slot j
Ref(j) == [k |-> "ref", slot |-> j]
\* a list of field names
Names(fs) == [k |-> "names", v |-> fs]
\* a dict from field names to field names, as a sequence of <<key, value>>
Map(m) == [k |-> "map", v |-> m]

\* map.get(f0, f0)
MapGet(map, f0) ==
    IF \E j \in 1..Len(map) : map[j][1] = f0
    THEN map[CHOOSE j \in 1..Len(map) : map[j][1] = f0][2]
    ELSE f0

Returned(self, node) == [self |-> self, ret |-> node, is_self |-> FALSE]

RECURSIVE Update(_, _, _)
\* d.update(e) on dicts given as [fields, types]: the value of a key that is
\* there is replaced, a new key goes to the end
Update(d, e, i) ==
    IF i > Len(e.fields) THEN d
    ELSE LET f == e.fields[i]
             d1 == IF \E j \in 1..Len(d.fields) : d.fields[j] = f
                   THEN [d EXCEPT !.types =
                            [j \in 1..Len(d.fields) |->
                                IF d.fields[j] = f THEN e.types[i] ELSE d.types[j]]]
                   ELSE [d EXCEPT !.fields = Append(@, f), !.types = Append(@, e.types[i])]
         IN  Update(d1, e, i + 1)

EmptyDict == [fields |-> << >>, types |-> << >>]
FieldDict(self) == [fields |-> self.fields, types |-> self.types]

\* tstruct._concat
concat(self, other) ==
    LET new_field_types == Update(Update(EmptyDict, FieldDict(self), 1), FieldDict(other), 1)
    IN  Returned(self, tstruct(new_field_types.fields, new_field_types.types))

\* tstruct._insert_fields that updates the receiver's own dict and returns it
insert_fields_inplace(self, new_fields) ==
    LET new_field_types == Update(FieldDict(self), FieldDict(new_fields), 1)
        changed == tstruct(new_field_types.fields, new_field_types.types)
    IN  [self |-> changed, ret |-> changed, is_self |-> TRUE]

\* tstruct._insert_fields
insert_fields(self, new_fields) ==
    LET new_field_types == Update(Update(EmptyDict, FieldDict(self), 1), FieldDict(new_fields), 1)
    IN  Returned(self, tstruct(new_field_types.fields, new_field_types.types))

\* tstruct._drop_fields
drop_fields(self, fields) ==
    LET keep == SelectSeq([i \in 1..Len(self.fields) |-> i],
                          LAMBDA i : \A j \in 1..Len(fields) : fields[j] # self.fields[i])
    IN  Returned(self, tstruct([n \in 1..Len(keep) |-> self.fields[keep[n]]],
                               [n \in 1..Len(keep) |-> self.types[keep[n]]]))

\* tstruct._select_fields
select_fields(self, fields) ==
    LET ts == [i \in 1..Len(fields) |-> StructGetItem(self, Key(fields[i]))]
        new_field_types ==
            Update(EmptyDict, [fields |-> fields, types |-> ts], 1)
    IN  IF IsRaise(FirstRaise(ts)) THEN Returned(self, FirstRaise(ts))
        ELSE Returned(self, tstruct(new_field_types.fields, new_field_types.types))

RECURSIVE rename_loop(_, _, _, _, _)
\* the loop of tstruct._rename from field i on; seen is a sequence of
\* <<new name, original name>>
rename_loop(self, map, i, seen, new_field_types) ==
    IF i > Len(self.fields)
    THEN tstruct(new_field_types.fields, new_field_types.types)
    ELSE LET f0 == self.fields[i]
             f == MapGet(map, f0)
         IN  IF \E j \in 1..Len(seen) : seen[j][1] = f
             THEN [k |-> "raise", exc |-> "ValueError",
                   args |-> <<seen[CHOOSE j \in 1..Len(seen) : seen[j][1] = f][2], f0, f>>]
             ELSE rename_loop(self, map, i + 1, Append(seen, <<f, f0>>),
                              [fields |-> Append(new_field_types.fields, f),
                               types |-> Append(new_field_types.types, self.types[i])])

\* tstruct._rename without the test of seen
rename_unchecked(self, map) ==
    LET fs == [i \in 1..Len(self.fields) |-> MapGet(map, self.fields[i])]
        new_field_types == Update(EmptyDict, [fields |-> fs, types |-> self.types], 1)
    IN  Returned(self, tstruct(new_field_types.fields, new_field_types.types))

\* tstruct._rename
rename(self, map) == Returned(self, rename_loop(self, map, 1, << >>, EmptyDict))
\* the structs that are transformed; the last has variables to substitute
StructExprs ==
    {tstruct(<< >>, << >>), tstruct(<<"a">>, <<tint32>>),
     tstruct(<<"a", "b">>, <<tint32, tstr>>),
     tstruct(<<"a", "b", "c">>, <<tint32, tstr, tarray(tint32)>>),
     tstruct(<<"a", "b">>, <<Xn, Y>>)}

\* what such a struct is unified with
StructCandidates ==
    {tstruct(<<"a", "b">>, <<tint32, tstr>>), tstruct(<<"a", "b">>, <<tstr, tstr>>)}

\* the other struct of _concat and the keyword arguments of _insert_fields
OtherStructs ==
    {tstruct(<< >>, << >>), tstruct(<<"c">>, <<tbool>>), tstruct(<<"a">>, <<tstr>>),
     tstruct(<<"d", "a">>, <<tbool, tint64>>)}

FieldLists == {<< >>, <<"a">>, <<"b", "a">>, <<"c">>, <<"a", "a">>}

RenameMaps ==
    {<< >>, << <<"a", "x">> >>, << <<"a", "b">> >>, << <<"b", "a">> >>,
     << <<"a", "b">>, <<"b", "a">> >>, << <<"a", "x">>, <<"b", "x">> >>,
     << <<"z", "a">> >>, << <<"a", "c">>, <<"c", "d">> >>, << <<"b", "c">>, <<"a", "c">> >>}

\* objs[i].<op>(arg), its result put into slot j when it is a new node
TransformCall(i, j, op, arg, r) ==
    /\ objs[i] # NoObj /\ objs[i].k = "struct"
    /\ i # j
    /\ IF IsRaise(r.ret)
       THEN ret' = r.ret /\ objs' = [objs EXCEPT ![i] = r.self]
       ELSE IF r.is_self
       THEN ret' = Ref(i) /\ objs' = [objs EXCEPT ![i] = r.self]
       ELSE ret' = Ref(j) /\ objs' = [objs EXCEPT ![i] = r.self, ![j] = r.ret]
    /\ context' = IF IsRaise(r.ret) \/ r.is_self THEN context ELSE Constructed(context, j)
    /\ Called(op, i, arg)
    /\ UNCHANGED <<named_boxes, box_value, threads>>

\* objs[i]._concat(other)
ConcatCall(i, j, other) == TransformCall(i, j, "concat", other, concat(objs[i], other))

\* objs[i]._insert_fields(**new_fields)
InsertFieldsCall(i, j, new_fields) ==
    TransformCall(i, j, "insert_fields", new_fields, insert_fields(objs[i], new_fields))

\* objs[i]._drop_fields(fields)
DropFieldsCall(i, j, fields) ==
    TransformCall(i, j, "drop_fields", Names(fields), drop_fields(objs[i], fields))

\* objs[i]._select_fields(fields)
SelectFieldsCall(i, j, fields) ==
    TransformCall(i, j, "select_fields", Names(fields), select_fields(objs[i], fields))

\* objs[i]._rename(map)
RenameCall(i, j, map) == TransformCall(i, j, "rename", Map(map), rename(objs[i], map))

\* tstruct.subst, which builds a new struct of the substituted field types
struct_subst(self, bv) == Returned(self, FieldsSubst(self, bv))

\* objs[i].subst() of a struct
StructSubstCall(i, j) ==
    TransformCall(i, j, "subst", NoObj, struct_subst(objs[i], box_value))

\* a caller that transforms the struct in slot 1, each result going to slot 2
NextStruct ==
    \/ \E e \in StructExprs : New(1, e)
    \/ \E t \in StructCandidates : UnifyCall(1, t)
    \/ StructSubstCall(1, 2)
    \/ \E o \in OtherStructs : ConcatCall(1, 2, o)
    \/ \E o \in OtherStructs : InsertFieldsCall(1, 2, o)
    \/ \E fs \in FieldLists : DropFieldsCall(1, 2, fs)
    \/ \E fs \in FieldLists : SelectFieldsCall(1, 2, fs)
    \/ \E m \in RenameMaps : RenameCall(1, 2, m)

SpecStruct == Init /\ [][NextStruct]_vars

\* the name field i of the struct s gets from the map m
Target(s, m, i) == MapGet(m, s.fields[i])

(***************************************************************************)
\* C18: tstruct._rename(map) fails with an error naming both original fields
\* whenever two fields would end up with the same name (two fields mapped
\* to one target, or a field renamed to the name of a field that is not
\* renamed); otherwise it returns a struct with the same number of fields
\* and the same types in the same order, each name f replaced by map[f]
\* when f is in map.
C18_Rename ==
    call.op = "rename" =>
        LET s == Recv
            m == call.arg.v
            n == Len(s.fields)
        IN  IF \E i, j \in 1..n : i < j /\ Target(s, m, i) = Target(s, m, j)
            THEN /\ IsRaise(ret) /\ ret.exc = "ValueError"
                 /\ \E i, j \in 1..n :
                        /\ i < j
                        /\ Target(s, m, i) = Target(s, m, j)
                        /\ ret.args = <<s.fields[i], s.fields[j], Target(s, m, i)>>
            ELSE /\ ret = Ref(2)
                 /\ objs[2].k = "struct"
                 /\ Len(objs[2].fields) = n
                 /\ objs[2].types = s.types
                 /\ \A i \in 1..n : objs[2].fields[i] = Target(s, m, i)

\* two fields were mapped to one name, and a swap of two names went through
C18_Witness ==
    /\ call.op = "rename"
    /\ Recv = tstruct(<<"a", "b", "c">>, <<tint32, tstr, tarray(tint32)>>)
    /\ \/ call.arg.v = << <<"a", "b">> >> /\ IsRaise(ret)
       \/ call.arg.v = << <<"a", "b">>, <<"b", "a">> >> /\ ret = Ref(2)
              /\ objs[2].fields = <<"b", "a", "c">>

TransformOps == {"concat", "insert_fields", "drop_fields", "select_fields", "rename", "subst"}

\* what a step that is a struct transformation or a subst() leaves alone
C20_Step ==
    (call'.op \in TransformOps /\ objs[call'.slot].k = "struct") =>
        /\ objs'[call'.slot] = objs[call'.slot]
        /\ ret'.k = "ref" => ret'.slot # call'.slot
        /\ ~IsRaise(ret') => ret'.k = "ref"
        /\ call'.op = "subst" => box_value' = box_value /\ named_boxes' = named_boxes

(***************************************************************************)
\* C20: struct transformations and substitution never mutate their
\* receiver: after _insert_fields, _drop_fields, _select_fields, _rename,
\* _concat or subst() the original struct has the same fields in the same
\* order with the same types, the result is a separate node, and subst()
\* leaves every binding cell unchanged.
C20_ReceiverUnchanged == [][C20_Step]_vars

\* a field was inserted into struct{a: int32, b: str}, and the struct with
\* bound variables was substituted
C20_Witness ==
    \/ /\ call.op = "insert_fields"
       /\ Recv = tstruct(<<"a", "b">>, <<tint32, tstr>>)
       /\ ret = Ref(2)
       /\ objs[2] = tstruct(<<"a", "b", "c">>, <<tint32, tstr, tbool>>)
    \/ /\ call.op = "subst"
       /\ ret = Ref(2)
       /\ objs[2] = tstruct(<<"a", "b">>, <<tint32, tstr>>)
       /\ Recv # objs[2]

(***************************************************************************)
(* External-reference context.  A node is identified by the slot of the    *)
(* tree it is in and its path from the root; an interned singleton is one  *)
(* object wherever it occurs.                                              *)
(***************************************************************************)
HailTypeContext(references) == [k |-> "context", references |-> references]

is_empty(ctx) == Cardinality(ctx.references) = 0

\* _empty_context = HailTypeContext()
empty_context == HailTypeContext({})

NodeId(t, slot, path) ==
    IF t.k \in InternedKinds
    THEN [slot |-> 0, path |-> << >>, kind |-> t.k]
    ELSE [slot |-> slot, path |-> path, kind |-> t.k]

\* self._context
Attr(cache, id) ==
    IF \E e \in cache : e.node = id
    THEN (CHOOSE e \in cache : e.node = id).ctx
    ELSE PyNone

\* an assignment to self._context that is lost
SetAttr_lost(cache, id, ctx) == {e \in cache : e.node # id}

\* self._context = ctx
SetAttr(cache, id, ctx) ==
    {e \in cache : e.node # id} \cup {[node |-> id, ctx |-> ctx]}

\* the tail of HailTypeContext.union, with only the first context kept
union_references_first(ctxs) ==
    IF Len(ctxs) = 0 THEN empty_context
    ELSE ctxs[1]

\* the tail of HailTypeContext.union: what it returns for the non-empty
\* contexts of the children
union_references(ctxs) ==
    IF Len(ctxs) = 0 THEN empty_context
    ELSE IF Len(ctxs) = 1 THEN ctxs[1]
    ELSE HailTypeContext(UNION {ctxs[j].references : j \in 1..Len(ctxs)})

RECURSIVE get_context(_, _, _, _), GetContext(_, _, _, _), union_ctxs(_, _, _, _, _, _)

\* ctxs = [t.get_context() for t in types if not t.get_context().is_empty],
\* from the i-th type on; each call may set `_context` attributes
union_ctxs(types, slot, path, i, cache, ctxs) ==
    IF i > Len(types) THEN [ret |-> PyList(ctxs), context |-> cache]
    ELSE LET c1 == get_context(types[i], slot, Append(path, i), cache)
         IN  IF IsRaise(c1.ret) THEN c1
             ELSE IF is_empty(c1.ret)
             THEN union_ctxs(types, slot, path, i + 1, c1.context, ctxs)
             ELSE LET c2 == get_context(types[i], slot, Append(path, i), c1.context)
                  IN  IF IsRaise(c2.ret) THEN c2
                      ELSE union_ctxs(types, slot, path, i + 1, c2.context,
                                      Append(ctxs, c2.ret))

\* HailTypeContext.union(*types)
union(types, slot, path, cache) ==
    LET r == union_ctxs(types, slot, path, 1, cache, << >>)
    IN  IF IsRaise(r.ret) THEN r
        ELSE [ret |-> union_references(r.ret.v), context |-> r.context]

\* self._get_context() of each kind
GetContext(self, slot, path, cache) ==
    CASE self.k = "locus" ->
            [ret |-> HailTypeContext({self.rg}), context |-> cache]
      [] self.k \in {"array", "set", "interval", "ndarray"} ->
            get_context(self.elem, slot, Append(path, 1), cache)
      [] self.k = "dict" ->
            union(<<self.key, self.value>>, slot, path, cache)
      [] self.k \in {"struct", "union", "tuple"} ->
            union(self.types, slot, path, cache)
      [] OTHER ->
            [ret |-> empty_context, context |-> cache]

\* self.get_context(); a tvariable has no `_context` attribute
get_context(self, slot, path, cache) ==
    IF self.k = "var" THEN [ret |-> Raise("AttributeError"), context |-> cache]
    ELSE LET id == NodeId(self, slot, path)
         IN  IF Attr(cache, id) # PyNone
             THEN [ret |-> Attr(cache, id), context |-> cache]
             ELSE LET r == GetContext(self, slot, path, cache)
                  IN  IF IsRaise(r.ret) THEN r
                      ELSE [ret |-> r.ret, context |-> SetAttr(r.context, id, r.ret)]

\* objs[i].get_context()
GetContextCall(i) ==
    /\ objs[i] # NoObj
    /\ LET r == get_context(objs[i], i, << >>, context)
       IN  /\ ret' = r.ret
           /\ context' = r.context
    /\ Called("get_context", i, NoObj)
    /\ UNCHANGED <<named_boxes, box_value, objs, threads>>

\* variable-free Type Nodes with and without loci
ContextTypes ==
    { tint32,
      tlocus("GRCh37"), tlocus("GRCh38"),
      tarray(tlocus("GRCh37")),
      tdict(tlocus("GRCh37"), tlocus("GRCh38")),
      tstruct(<< >>, << >>),
      tstruct(<<"a", "b", "c">>,
              <<tlocus("GRCh37"), tinterval(tlocus("GRCh38")), tlocus("GRCh37")>>),
      tunion(<<"a", "b">>, <<tlocus("GRCh38"), tlocus("GRCh37")>>),
      ttuple(<<tstr, tset(tlocus("GRCh38")), tint32>>),
      tndarray(tlocus("GRCh37"), 1) }

\* a caller asking the nodes it holds for their context
NextContext ==
    \/ \E i \in Slots, e \in ContextTypes : New(i, e)
    \/ \E i \in Slots : GetContextCall(i)

SpecContext == Init /\ [][NextContext]_vars

RECURSIVE LocusNames(_)
\* the reference-genome names of the locus nodes of t
LocusNames(t) ==
    CASE t.k = "locus" -> {t.rg}
      [] t.k \in {"array", "set", "interval", "ndarray"} -> LocusNames(t.elem)
      [] t.k = "dict" -> LocusNames(t.key) \cup LocusNames(t.value)
      [] t.k \in {"struct", "union", "tuple"} ->
            UNION {LocusNames(t.types[j]) : j \in 1..Len(t.types)}
      [] OTHER -> {}

\* what a step that is a get_context() returns and caches
C19_Step ==
    LET self == objs[call'.slot]
        id == NodeId(self, call'.slot, << >>)
    IN  (call'.op = "get_context" /\ self \in ContextTypes) =>
            /\ ret' = HailTypeContext(LocusNames(self))
            /\ Attr(context', id) = ret'
            /\ Attr(context, id) # PyNone =>
                    ret' = Attr(context, id) /\ context' = context

(***************************************************************************)
\* C19: get_context() of a variable-free type t returns exactly the set of
\* reference-genome names of the locus nodes occurring anywhere in t (the
\* empty set when t contains no locus, a singleton for a locus leaf, the
\* union over children for composites), and every later call on the same
\* node returns the same cached result.
C19_GetContext == [][C19_Step]_vars

\* the context of dict<locus<GRCh37>, locus<GRCh38>> was asked for while the
\* node in the other slot had its context cached
C19_Witness ==
    /\ call.op = "get_context"
    /\ Recv = tdict(tlocus("GRCh37"), tlocus("GRCh38"))
    /\ ret = HailTypeContext({"GRCh37", "GRCh38"})
    /\ Attr(context, NodeId(Recv, call.slot, << >>)) = ret
    /\ \E j \in Slots : j # call.slot /\ objs[j] # NoObj
            /\ Attr(context, NodeId(objs[j], j, << >>)) # PyNone

(***************************************************************************)
(* Properties of the binding cells over whole runs                         *)
(***************************************************************************)
\* what a step does to the cells that are bound when it starts
C22_Step ==
    \A b \in DOMAIN box_value :
        box_value[b] # NoValue =>
            /\ call'.op = "unify" => box_value'[b] = box_value[b]
            /\ box_value'[b] # box_value[b] =>
                    /\ call'.op = "clear"
                    /\ objs[call'.slot].box = b
                    /\ box_value'[b] = NoValue

\* C22: once a binding cell is bound to a value v, no sequence of unify
\* calls (succeeding or failing, through any variable that shares the name)
\* changes the bound value: the cell stays bound to v until a clear() on that
\* name, and only a clear() returns it to unbound.
C22_BoundUntilClear == [][C22_Step]_vars

\* a unify with another value through a variable of the name while a second
\* variable of that name is held: it failed and the cell kept its value
C22_Witness ==
    /\ call.op = "unify"
    /\ pre[Recv.box] # NoValue
    /\ ~TypeEq(call.arg, pre[Recv.box])
    /\ ret = PyBool(FALSE)
    /\ box_value[Recv.box] = pre[Recv.box]
    /\ Named(Recv.name) \ {call.slot} # {}

\* C23: in every reachable state, for every variable that has a constraint
\* and whose binding cell is bound, the bound value satisfies that variable's
\* constraint; this holds for all sequences of unify and clear over all
\* variables, including distinct variables that share a name but were
\* constructed with different constraints (or one with none).
C23_BoundSatisfiesConstraint ==
    \A j \in Slots :
        (objs[j] # NoObj /\ objs[j].k = "var" /\ objs[j].cond # "None"
                /\ box_value[objs[j].box] # NoValue) =>
            condf(objs[j].cond, box_value[objs[j].box])

\* C24: a unify call on a composite type that returns false leaves every
\* binding cell exactly as it was before the call: variables bound by earlier
\* children of a struct, tuple or dict during the failed attempt are not left
\* bound, so the caller can retry with an alternative signature without
\* calling clear().
C24_FailedUnifyRestores ==
    (call.op = "unify" /\ Recv.k \in {"struct", "tuple", "dict"}
            /\ ret = PyBool(FALSE)) =>
        box_value = pre

\* HailType.__hash__: 43 + hash(str(self)), with the hash of a string taken
\* to tell all strings apart
HailTypeHash(self) == <<43, Str(self)>>

\* C25: equality of variable-free Type Nodes agrees with their display form
\* and hash: for any t1, t2, t1 == t2 iff str(t1) == str(t2), so equal nodes
\* always have equal hashes; in particular two ndarray types with the same
\* element type but different ranks are not equal.
C25_EqAgreesWithStr ==
    call.op = "eq" =>
        /\ (ret = PyBool(TRUE)) <=> (Str(Recv) = Str(call.arg))
        /\ ret = PyBool(TRUE) => HailTypeHash(Recv) = HailTypeHash(call.arg)

(***************************************************************************)
(* Threads in get_context() of the nodes of the tree in slot 1.  A thread  *)
(* tests the attribute, computes, assigns and reads the attribute again to *)
(* return it; each of these is one step.                                   *)
(***************************************************************************)
\* the children of a node, in the order their contexts are asked for
ChildNodes(t) ==
    CASE t.k \in {"array", "set", "interval", "ndarray"} -> <<t.elem>>
      [] t.k = "dict" -> <<t.key, t.value>>
      [] t.k \in {"struct", "union", "tuple"} -> t.types
      [] OTHER -> << >>

RECURSIVE NodeAt(_, _)
\* the node at a path of child indexes
NodeAt(t, path) ==
    IF path = << >> THEN t ELSE NodeAt(ChildNodes(t)[Head(path)], Tail(path))

\* the nodes a thread may hold: the root and its children
Paths(t) == {<< >>} \cup {<<j>> : j \in 1..Len(ChildNodes(t))}

\* the node thread t is working on
Self(t) == NodeAt(objs[1], threads[t].path)
SelfId(t) == NodeId(Self(t), 1, threads[t].path)

\* thread t calls get_context() on the node at path
Start(t, path) ==
    /\ objs[1] # NoObj
    /\ threads[t].pc \in {"idle", "done"}
    /\ threads' = [threads EXCEPT ![t] =
                      [pc |-> "test", path |-> path, local |-> PyNone, ret |-> PyNone]]
    /\ UNCHANGED <<named_boxes, box_value, objs, call, ret, pre, context>>

\* if self._context is None:
Test(t) ==
    /\ threads[t].pc = "test"
    /\ threads' = [threads EXCEPT ![t].pc =
                      IF Attr(context, SelfId(t)) = PyNone THEN "compute" ELSE "return"]
    /\ UNCHANGED <<named_boxes, box_value, objs, call, ret, pre, context>>

\* self._get_context(), which asks the children for their contexts
Compute(t) ==
    /\ threads[t].pc = "compute"
    /\ LET r == GetContext(Self(t), 1, threads[t].path, context)
       IN  /\ threads' = [threads EXCEPT ![t].pc = "assign", ![t].local = r.ret]
           /\ context' = r.context
    /\ UNCHANGED <<named_boxes, box_value, objs, call, ret, pre>>

\* self._context = <the computed context>
Assign(t) ==
    /\ threads[t].pc = "assign"
    /\ context' = SetAttr(context, SelfId(t), threads[t].local)
    /\ threads' = [threads EXCEPT ![t].pc = "return"]
    /\ UNCHANGED <<named_boxes, box_value, objs, call, ret, pre>>

\* return self._context
Return(t) ==
    /\ threads[t].pc = "return"
    /\ threads' = [threads EXCEPT ![t].pc = "done", ![t].ret = Attr(context, SelfId(t))]
    /\ UNCHANGED <<named_boxes, box_value, objs, call, ret, pre, context>>

\* the trees the threads share
ThreadTypes ==
    { tlocus("GRCh37"),
      tarray(tlocus("GRCh37")),
      tdict(tlocus("GRCh37"), tlocus("GRCh38")),
      ttuple(<<tint32, tlocus("GRCh38")>>) }

\* a tree is built, then threads ask its nodes for their contexts
NextThreads ==
    \/ \E e \in ThreadTypes :
            (\A t \in Threads : threads[t].pc = "idle") /\ New(1, e)
    \/ \E t \in Threads : \E path \in Paths(objs[1]) : Start(t, path)
    \/ \E t \in Threads : Test(t)
    \/ \E t \in Threads : Compute(t)
    \/ \E t \in Threads : Assign(t)
    \/ \E t \in Threads : Return(t)

SpecThreads == Init /\ [][NextThreads]_vars

\* the context a single-threaded call returns for a node
Expected(t) == HailTypeContext(LocusNames(t))

\* C21: under any interleaving of two or more threads calling get_context()
\* on the same Type Node (each doing read-cache, compute, write-cache as
\* separate steps), every call returns a context with the same reference set
\* as a single-threaded call would, and the cache finally holds that value;
\* recomputation may happen more than once but no caller observes an unset
\* or partial value.
C21_ConcurrentGetContext ==
    /\ \A t \in Threads :
          threads[t].pc = "done" =>
              /\ threads[t].ret = Expected(Self(t))
              /\ Attr(context, SelfId(t)) = Expected(Self(t))
    /\ \A e \in context :
          e.node.slot = 1 => e.ctx = Expected(NodeAt(objs[1], e.node.path))

\* two threads both computed the context of dict<locus<GRCh37>,
\* locus<GRCh38>> and both returned it
C21_Witness ==
    /\ objs[1] = tdict(tlocus("GRCh37"), tlocus("GRCh38"))
    /\ \E t1, t2 \in Threads :
          /\ t1 # t2
          /\ threads[t1].pc = "done" /\ threads[t2].pc = "done"
          /\ threads[t1].path = << >> /\ threads[t2].path = << >>
          /\ threads[t1].local # PyNone /\ threads[t2].local # PyNone
          /\ threads[t1].ret = HailTypeContext({"GRCh37", "GRCh38"})
          /\ threads[t2].ret = threads[t1].ret

====
